---- MODULE Spec2Model ----
(***************************************************************************)
(* Retrieval-and-orchestration pipeline of the document question-answering *)
(* system: ingestion with the embedding cache (src/src/core/chunking.py),  *)
(* retrieval (src/src/core/search.py, src/test2.py), query decomposition   *)
(* (src/src/enhanced/decomposition.py) and the orchestrator                *)
(* (src/src/enhanced/orchestrator.py, src/src/general_purpose_rag_new.py). *)
(*                                                                         *)
(* Text is modelled at the level of tokens: a question is a sequence of    *)
(* tokens (a word, or a fixed phrase such as "how many"), a number of       *)
(* further words that match no pattern, and a number of commas.  A regular *)
(* expression a.*b matches when a token containing a is followed by a      *)
(* token containing b.                                                     *)
(***************************************************************************)
EXTENDS Integers, Sequences, FiniteSets, TLC

VARIABLES
    dq,             \* decomposer: the question handed to the decomposer
    dsub,           \* decomposer: list returned by decompose_complex_query
    dcx,            \* decomposer: value returned by assess_query_complexity
    dcalled,        \* decomposer: which of the two functions have been called
    access_token,   \* AuthManager.access_token (NoValue is None)
    chunks,         \* GeneralPurposeRAG.chunks
    chunk_embeddings,   \* GeneralPurposeRAG.chunk_embeddings
    chunk_metadata, \* GeneralPurposeRAG.chunk_metadata
    epc,            \* position of the call of enhanced_query being served
    eq,             \* its question
    ecx,            \* its query_complexity
    esubs,          \* its sub_queries
    ei,             \* index in esubs of the sub-query being executed (0: direct)
    cur,            \* frame of the running call of query
    sub_results,    \* executor's results, in insertion order
    result,         \* object returned by enhanced_query
    events,         \* progress events received by the observer
    hist,           \* calls made while serving the question
    qlog,           \* one record per finished call of query
    file,           \* the document on disk: kind, lines, modification time
    cache,          \* the cache directory: content hash -> pickled bytes
    last,           \* the latest call of load_and_process_document
    prev,           \* the call before it
    steps,          \* number of calls made and of changes made on disk so far
    selection,      \* a call of the legacy adaptive_chunk_selection: inputs, result
    chunked,        \* a call of create_adaptive_chunks: the lines, the chunks made
    client,         \* a call of one service client: inputs, requests sent, result
    stream,         \* a streamed request: worker, event queue, consumer
    server          \* the server: system_status and its request threads

dvars == <<dq, dsub, dcx, dcalled>>
ivars == <<chunks, chunk_embeddings, chunk_metadata>>
evars == <<access_token, epc, eq, ecx, esubs, ei, cur, sub_results, result, events,
           hist, qlog>>

fvars == <<file, cache, last, prev, steps, selection>>

xvars == <<chunked, client, stream, server>>

vars == <<dq, dsub, dcx, dcalled, access_token, chunks, chunk_embeddings,
          chunk_metadata, epc, eq, ecx, esubs, ei, cur, sub_results, result, events,
          hist, qlog, file, cache, last, prev, steps, selection, chunked, client, stream, server>>

NoValue == "<none>"

(***************************************************************************)
(* Sequence helpers                                                        *)
(***************************************************************************)
Range(s) == {s[i] : i \in DOMAIN s}

RECURSIVE SumSeq(_)
SumSeq(s) == IF s = <<>> THEN 0 ELSE s[1] + SumSeq(Tail(s))

RECURSIVE Flatten(_)
Flatten(ss) == IF ss = <<>> THEN <<>> ELSE ss[1] \o Flatten(Tail(ss))

Reverse(s) == [i \in 1..Len(s) |-> s[Len(s) + 1 - i]]

\* The sequences over S of length up to n.
RECURSIVE SeqsUpTo(_, _)
SeqsUpTo(S, n) ==
    IF n = 0 THEN {<<>>}
    ELSE LET shorter == SeqsUpTo(S, n - 1)
         IN  shorter \cup {Append(q, x) : q \in {r \in shorter : Len(r) = n - 1}, x \in S}

(***************************************************************************)
(* Text                                                                    *)
(***************************************************************************)
\* str.lower() on one token: the tokens written with capitals in questions.
Lower(tok) ==
    CASE tok = "CAPA" -> "capa"
      [] tok = "Israel" -> "israel"
      [] tok = "Compare" -> "compare"
      [] tok = "And" -> "and"
      [] OTHER -> tok

LowerAll(toks) == [i \in DOMAIN toks |-> Lower(toks[i])]

\* The substring relation between the tokens and the pattern words that are
\* not equal to them.
ProperSubstrings ==
    { <<"unsubstantiated", "substantiated">>,
      <<"country", "count">>,
      <<"compared to", "compare">> }

Contains(tok, word) == tok = word \/ <<tok, word>> \in ProperSubstrings

\* Words of a token, as str.split() counts them.
WordsOf(tok) == IF tok \in {"how many", "compared to", "in place", "what is", "show me",
                            "number of", "sum of", "amount of"} THEN 2 ELSE 1

\* re.search(pattern, text): <<a>> is the literal a, <<a, b>> is a.*b.
re_search(pattern, toks) ==
    IF Len(pattern) = 1
    THEN \E i \in DOMAIN toks : Contains(toks[i], pattern[1])
    ELSE \E i \in DOMAIN toks : \E j \in DOMAIN toks :
            i < j /\ Contains(toks[i], pattern[1]) /\ Contains(toks[j], pattern[2])

\* len(query.split())
WordCount(q) == SumSeq([i \in DOMAIN q.toks |-> WordsOf(q.toks[i])]) + q.filler

(***************************************************************************)
(* QueryDecomposer                                                         *)
(***************************************************************************)
CategoryOrder ==
    <<"overall_numbers", "comparison", "market_specific",
      "capa_details", "complaint_reasons", "trends_patterns">>

Categories == Range(CategoryOrder)

decomposition_patterns ==
    [ overall_numbers |->
        << <<"total", "complaint">>, <<"overall", "number">>,
           <<"substantiated", "unsubstantiated">>, <<"complaint", "count">>,
           <<"how many", "total">> >>,
      comparison |->
        << <<"compare", "previous">>, <<"increased", "decreased">>,
           <<"trend", "period">>, <<"vs", "previous">>, <<"compared to">> >>,
      market_specific |->
        << <<"israel", "market">>, <<"local", "market">>, <<"market", "specific">>,
           <<"israel", "complaint">>, <<"country", "specific">> >>,
      capa_details |->
        << <<"capa", "status">>, <<"capa", "details">>, <<"corrective", "action">>,
           <<"preventive", "action">>, <<"in place", "ongoing">> >>,
      complaint_reasons |->
        << <<"main", "reason">>, <<"complaint", "type">>, <<"core", "issue">>,
           <<"primary", "cause">>, <<"reason", "complaint">> >>,
      trends_patterns |->
        << <<"trend", "pattern">>, <<"significant", "trend">>, <<"market", "trend">>,
           <<"negative", "trend">>, <<"pattern", "identified">> >> ]

\* any(re.search(pattern, query_lower) for pattern in patterns[category])
CategoryMatches(category, query_lower) ==
    \E k \in DOMAIN decomposition_patterns[category] :
        re_search(decomposition_patterns[category][k], query_lower)

Text(toks, commas) == [toks |-> toks, filler |-> 0, commas |-> commas]

SubQueryOverall ==
    [type |-> "counting", priority |-> 1, focus |-> "overall_numbers",
     query |-> Text(<<"what", "are", "the", "total", "substantiated", "and",
                      "unsubstantiated", "complaint", "number">>, 0)]

SubQueryMarket ==
    [type |-> "counting", priority |-> 2, focus |-> "israel_market",
     query |-> Text(<<"how many", "complaint", "are", "from", "Israel", "local",
                      "market", "specifically">>, 0)]

SubQueryComparison ==
    [type |-> "analysis", priority |-> 1, focus |-> "comparison",
     query |-> Text(<<"Compare", "current", "complaint", "number", "to", "previous",
                      "review", "period", "-", "increased", "decreased", "or",
                      "remained", "same">>, 2)]

SubQueryReasons ==
    [type |-> "analysis", priority |-> 2, focus |-> "reasons",
     query |-> Text(<<"what", "are", "the", "main", "complaint", "reason", "and",
                      "core", "issue", "identified">>, 0)]

SubQueryCapa ==
    [type |-> "search", priority |-> 3, focus |-> "capa",
     query |-> Text(<<"what is", "the", "CAPA", "status", "for", "negative", "trend",
                      "-", "in place", "ongoing", "or", "not", "required">>, 2)]

SubQueryTrends ==
    [type |-> "analysis", priority |-> 2, focus |-> "trends",
     query |-> Text(<<"are", "there", "any", "significant", "market", "specific",
                      "trend", "or", "pattern", "identified">>, 0)]

SubQueryGeneral(query) ==
    [type |-> "analysis", priority |-> 1, focus |-> "general", query |-> query]

\* The category whose patterns guard each append, in the order of the ifs.
AppendOrder ==
    << <<"overall_numbers", SubQueryOverall>>,
       <<"market_specific", SubQueryMarket>>,
       <<"comparison", SubQueryComparison>>,
       <<"complaint_reasons", SubQueryReasons>>,
       <<"capa_details", SubQueryCapa>>,
       <<"trends_patterns", SubQueryTrends>> >>

\* list.sort(key=priority): a stable sort, here by insertion from the left.
RECURSIVE InsertByPriority(_, _)
InsertByPriority(x, s) ==
    IF s = <<>> THEN <<x>>
    ELSE IF s[Len(s)].priority <= x.priority THEN Append(s, x)
    ELSE Append(InsertByPriority(x, SubSeq(s, 1, Len(s) - 1)), s[Len(s)])

\* The list left in the order of the appends.
KeepAppendOrder(s) == s

RECURSIVE SortByPriority(_)
SortByPriority(s) ==
    IF s = <<>> THEN <<>>
    ELSE InsertByPriority(s[Len(s)], SortByPriority(SubSeq(s, 1, Len(s) - 1)))

\* The six tests chained as if / elif: the first category that matches only.
decompose_first_match(query) ==
    LET query_lower == LowerAll(query.toks)
        appended == Flatten([k \in DOMAIN AppendOrder |->
                        IF CategoryMatches(AppendOrder[k][1], query_lower)
                        THEN <<AppendOrder[k][2]>> ELSE <<>>])
    IN  IF appended = <<>> THEN <<SubQueryGeneral(query)>> ELSE <<appended[1]>>

decompose_complex_query(query) ==
    LET query_lower == LowerAll(query.toks)
        appended == Flatten([k \in DOMAIN AppendOrder |->
                        IF CategoryMatches(AppendOrder[k][1], query_lower)
                        THEN <<AppendOrder[k][2]>> ELSE <<>>])
        sub_queries == IF appended = <<>> THEN <<SubQueryGeneral(query)>> ELSE appended
    IN  SortByPriority(sub_queries)

WordLimit == 30
CommaLimit == 2
Conjunctions == {"and", "or", "also", "additionally", "furthermore"}

assess_query_complexity(query) ==
    LET query_lower == LowerAll(query.toks)
    IN  Cardinality({c \in Categories : CategoryMatches(c, query_lower)})
        + (IF WordCount(query) > WordLimit THEN 1 ELSE 0)
        + (IF query.commas > CommaLimit THEN 1 ELSE 0)
        + (IF \E i \in DOMAIN query_lower : query_lower[i] \in Conjunctions THEN 1 ELSE 0)

(***************************************************************************)
(* Questions: for a set of categories, one phrase of each category (two    *)
(* phrasings), in                                                          *)
(* declaration order, with the phrases reversed, or with all tokens        *)
(* reversed; optionally followed by a conjunction, by further words and by *)
(* commas.                                                                 *)
(***************************************************************************)
Phrase(category, variant) ==
    CASE category = "overall_numbers" ->
            IF variant = 1 THEN <<"total", "complaint">>
                           ELSE <<"substantiated", "unsubstantiated">>
      [] category = "comparison" ->
            IF variant = 1 THEN <<"Compare", "previous">> ELSE <<"compared to">>
      [] category = "market_specific" ->
            IF variant = 1 THEN <<"Israel", "market">> ELSE <<"country", "specific">>
      [] category = "capa_details" ->
            IF variant = 1 THEN <<"CAPA", "status">> ELSE <<"corrective", "action">>
      [] category = "complaint_reasons" ->
            IF variant = 1 THEN <<"main", "reason">> ELSE <<"core", "issue">>
      [] category = "trends_patterns" ->
            IF variant = 1 THEN <<"significant", "trend">>
                           ELSE <<"pattern", "identified">>

PhraseList(S, variant) ==
    [k \in DOMAIN CategoryOrder |->
        IF CategoryOrder[k] \in S THEN Phrase(CategoryOrder[k], variant) ELSE <<>>]

QuestionToks(S, variant, order, conj) ==
    LET fwd == Flatten(PhraseList(S, variant))
        body == CASE order = "declared" -> fwd
                  [] order = "phrases_reversed" -> Flatten(Reverse(PhraseList(S, variant)))
                  [] order = "tokens_reversed" -> Reverse(fwd)
    IN  IF conj = NoValue THEN body ELSE Append(body, conj)

Orders == {"declared", "phrases_reversed", "tokens_reversed"}
FillerChoices == {WordLimit - 4, WordLimit + 1}
CommaChoices == {CommaLimit, CommaLimit + 1}

Question(S, variant, order, conj, filler, commas) ==
    [toks |-> QuestionToks(S, variant, order, conj), filler |-> filler, commas |-> commas]

(***************************************************************************)
(* ChunkingService: content types and the chunker                          *)
(*                                                                         *)
(* A line is one of a vocabulary of concrete lines; the tests the code     *)
(* makes on a line (strip, the two regular expressions, the field counts,  *)
(* isupper, endswith) are tabulated for the vocabulary.                    *)
(***************************************************************************)
Strip(line) ==
    CASE line = "  plain text  " -> "plain text"
      [] line = "   " -> ""
      [] line = " QE-1042 spray " -> "QE-1042 spray"
      [] OTHER -> line

\* re.match(r'^\d{10,}', line)
StartsWithTenDigits(line) == line \in {"2024001234 Israel", "2024001234,A,B,C"}

\* re.match(r'^[A-Z]{2,3}-\d+', line)
StartsWithCode(line) == line \in {"QE-1042 spray"}

\* len(line.split('\t')), len(line.split(','))
TabFields(line) == IF line = "a\tb\tc\td" THEN 4 ELSE 1
CommaFields(line) ==
    CASE line \in {"a,b,c,d", "A,B,C,D", "2024001234,A,B,C"} -> 4
      [] line = "x,y,z" -> 3
      [] OTHER -> 1

IsUpper(line) == line \in {"SUMMARY", "A,B,C,D", "2024001234,A,B,C"}
EndsWithColon(line) == line \in {"Details:"}

detect_content_type(raw) ==
    LET line == Strip(raw)
    IN  IF line = "" THEN "empty"
        ELSE IF StartsWithTenDigits(line) \/ StartsWithCode(line) THEN "structured_data"
        ELSE IF TabFields(line) > 3 \/ CommaFields(line) > 3 THEN "tabular"
        ELSE IF IsUpper(line) \/ EndsWithColon(line) THEN "header"
        ELSE "text"

CHUNK_SIZES ==
    [structured_data |-> 25, tabular |-> 15, header |-> 50, text |-> 30, empty |-> 0]

\* A budget that ignores the table.
ChunkSizeDefault(content_type) == 30

\* CHUNK_SIZES.get(content_type, 30)
ChunkSize(content_type) ==
    IF content_type \in DOMAIN CHUNK_SIZES THEN CHUNK_SIZES[content_type] ELSE 30

\* A loop that skips no line.
SkipNoLine(line_stripped) == FALSE

\* if not line_stripped: continue
SkipLine(line_stripped) == line_stripped = ""

MakeChunk(chunk_lines, content_type, start_line, end_line) ==
    [content |-> chunk_lines, type |-> content_type, line_count |-> Len(chunk_lines),
     start_line |-> start_line, end_line |-> end_line]

\* One pass of the loop body of create_adaptive_chunks on line k (k is 1-based,
\* the code's i is k - 1); loop holds the chunks made so far (chunks) and the
\* running buffer and type (current_chunk_lines, current_content_type).
ChunkStep(lines, k, loop) ==
    LET line_stripped == Strip(lines[k])
        i == k - 1
        content_type == detect_content_type(line_stripped)
        start_new_chunk ==
            \/ loop.current_content_type # content_type
            \/ Len(loop.current_chunk_lines) >= ChunkSize(content_type)
        flush == start_new_chunk /\ loop.current_chunk_lines # <<>>
    IN  IF SkipLine(line_stripped)
        THEN loop
        ELSE [chunks |->
                 IF flush
                 THEN Append(loop.chunks,
                             MakeChunk(loop.current_chunk_lines, loop.current_content_type,
                                       i - Len(loop.current_chunk_lines) + 1, i))
                 ELSE loop.chunks,
              current_chunk_lines |->
                 IF flush THEN <<line_stripped>>
                          ELSE Append(loop.current_chunk_lines, line_stripped),
              current_content_type |-> content_type]

\* for i, line in enumerate(lines), on lines lo..hi in order: the passes over
\* the first half of the range, then those over the second half from the
\* state the first half left.
RECURSIVE ChunkLoop(_, _, _, _)
ChunkLoop(lines, lo, hi, loop) ==
    IF lo > hi THEN loop
    ELSE IF lo = hi THEN ChunkStep(lines, lo, loop)
    ELSE LET mid == (lo + hi) \div 2
         IN  CHOOSE after \in {ChunkLoop(lines, mid + 1, hi, half) :
                                  half \in {ChunkLoop(lines, lo, mid, loop)}} : TRUE

\* The loop from empty state, then the final buffer.
create_adaptive_chunks(lines) ==
    LET loop == ChunkLoop(lines, 1, Len(lines),
                          [chunks |-> <<>>, current_chunk_lines |-> <<>>,
                           current_content_type |-> "unknown"])
    IN  IF loop.current_chunk_lines # <<>>
        THEN Append(loop.chunks,
                    MakeChunk(loop.current_chunk_lines, loop.current_content_type,
                              Len(lines) - Len(loop.current_chunk_lines) + 1, Len(lines)))
        ELSE loop.chunks

(***************************************************************************)
(* AuthManager and the HTTP exchange shared by the four service clients    *)
(*                                                                         *)
(* What the outside world does during one client call is a script: the     *)
(* identity provider's answer to the initial token request (idp1), the     *)
(* service's answer to the first request (http1), the identity provider's  *)
(* answer to the refresh (idp2), the service's answer to the second        *)
(* request (http2).  "raise" is requests.post raising (timeout, connection *)
(* error).                                                                 *)
(***************************************************************************)
IdpOutcomes == {"200", "403", "raise"}
HttpOutcomes == {"200", "401", "500", "raise"}

Scripts ==
    { s \in [idp1 : IdpOutcomes, http1 : HttpOutcomes,
             idp2 : IdpOutcomes, http2 : HttpOutcomes] :
        /\ s.http1 # "401" => (s.idp2 = "200" /\ s.http2 = "200")
        /\ s.idp2 # "200" => s.http2 = "200" }

\* The scripts that differ for a client holding `token`.
ScriptsFor(token) == {s \in Scripts : token # NoValue => s.idp1 = "200"}

get_access_token(token, idp) ==
    IF idp = "200" THEN [ok |-> TRUE, token |-> "bearer"]
    ELSE [ok |-> FALSE, token |-> token]

ensure_authenticated(token, idp) ==
    IF token = NoValue THEN get_access_token(token, idp)
    ELSE [ok |-> TRUE, token |-> token]

\* An exchange that sends the request again after any status other than 200.
PostWithRetry(token, s) ==
    IF s.http1 = "raise" THEN [resp |-> "raise", token |-> token, sent |-> 1, refreshed |-> 0]
    ELSE IF s.http1 # "200"
    THEN LET r == get_access_token(token, s.idp2)
         IN  IF r.ok
             THEN [resp |-> s.http2, token |-> r.token, sent |-> 2, refreshed |-> 1]
             ELSE [resp |-> s.http1, token |-> token, sent |-> 1, refreshed |-> 1]
    ELSE [resp |-> s.http1, token |-> token, sent |-> 1, refreshed |-> 0]

\* requests.post, and on a 401 one token refresh and one more requests.post.
\* resp is the status of the response the client then looks at, or "raise".
PostWithRefresh(token, s) ==
    IF s.http1 = "raise" THEN [resp |-> "raise", token |-> token, sent |-> 1, refreshed |-> 0]
    ELSE IF s.http1 = "401"
    THEN LET r == get_access_token(token, s.idp2)
         IN  IF r.ok
             THEN [resp |-> s.http2, token |-> r.token, sent |-> 2, refreshed |-> 1]
             ELSE [resp |-> "401", token |-> token, sent |-> 1, refreshed |-> 1]
    ELSE [resp |-> s.http1, token |-> token, sent |-> 1, refreshed |-> 0]

\* The token requests and service requests one client call makes under script
\* s: acquired is whether ensure_authenticated let the call go on.
HttpExchange(token, s) ==
    LET a == ensure_authenticated(token, s.idp1)
    IN  IF ~a.ok
        THEN [acquired |-> FALSE, resp |-> NoValue, sent |-> 0, refreshed |-> 0]
        ELSE LET p == PostWithRefresh(a.token, s)
             IN  [acquired |-> TRUE, resp |-> p.resp, sent |-> p.sent,
                  refreshed |-> p.refreshed]

\* A token request of the call failed: the initial acquisition, or the refresh
\* after a 401.
TokenRequestFailed(token, s) ==
    LET h == HttpExchange(token, s)
    IN  ~h.acquired \/ (h.refreshed = 1 /\ h.sent = 1)

(***************************************************************************)
(* EmbeddingService                                                        *)
(***************************************************************************)
\* Vectors the embedding service returns: non-negative integer components.
EmbVecs == { <<1, 0>>, <<0, 1>>, <<3, 4>>, <<1, 2>> }

\* What a 200 response of the embedding service carries.
EmbBodies == [ok : {TRUE}, vec : EmbVecs] \cup {[ok |-> FALSE, vec |-> <<>>]}

\* Returns the vector, or the empty list on any failure.
get_embedding(token, s, body) ==
    LET a == ensure_authenticated(token, s.idp1)
    IN  IF ~a.ok THEN [embedding |-> <<>>, token |-> a.token, raised |-> FALSE]
        ELSE LET p == PostWithRefresh(a.token, s)
             IN  IF p.resp = "200" /\ body.ok
                 THEN [embedding |-> body.vec, token |-> p.token, raised |-> FALSE]
                 ELSE [embedding |-> <<>>, token |-> p.token, raised |-> FALSE]

Dot(v1, v2) == SumSeq([i \in DOMAIN v1 |-> v1[i] * v2[i]])

\* The similarity of two non-negative vectors, as the fraction num/den that is
\* its square (0/1 when a norm is zero).
cosine_similarity(v1, v2) ==
    LET n1 == Dot(v1, v1)
        n2 == Dot(v2, v2)
    IN  IF n1 = 0 \/ n2 = 0 THEN [num |-> 0, den |-> 1]
        ELSE [num |-> Dot(v1, v2) * Dot(v1, v2), den |-> n1 * n2]

\* similarity >= percent / 100
SimAtLeast(sim, percent) == 10000 * sim.num >= percent * percent * sim.den

SimGreater(a, b) == a.num * b.den > b.num * a.den

(***************************************************************************)
(* SearchService                                                           *)
(***************************************************************************)
COUNTING_PATTERNS ==
    <<"how many", "count", "number of", "total", "sum of", "quantity", "amount of",
      "frequency">>
ANALYSIS_PATTERNS ==
    <<"analyze", "compare", "relationship", "pattern", "trend", "correlation",
      "summary", "overview", "insights">>
SEARCH_PATTERNS ==
    <<"find", "search", "locate", "where", "which", "what is", "show me", "list",
      "identify">>

\* any(pattern in query_lower for pattern in patterns)
AnyPatternIn(patterns, query_lower) ==
    \E k \in DOMAIN patterns : \E i \in DOMAIN query_lower :
        Contains(query_lower[i], patterns[k])

classify_query(query) ==
    LET query_lower == LowerAll(query.toks)
    IN  IF AnyPatternIn(COUNTING_PATTERNS, query_lower) THEN "counting"
        ELSE IF AnyPatternIn(ANALYSIS_PATTERNS, query_lower) THEN "analysis"
        ELSE IF AnyPatternIn(SEARCH_PATTERNS, query_lower) THEN "search"
        ELSE "general"

\* similarities.sort(key=similarity, reverse=True): stable, descending.
RECURSIVE InsertBySimilarity(_, _)
InsertBySimilarity(x, s) ==
    IF s = <<>> THEN <<x>>
    ELSE IF ~SimGreater(x.sim, s[Len(s)].sim) THEN Append(s, x)
    ELSE Append(InsertBySimilarity(x, SubSeq(s, 1, Len(s) - 1)), s[Len(s)])

RECURSIVE SortBySimilarity(_)
SortBySimilarity(s) ==
    IF s = <<>> THEN <<>>
    ELSE InsertBySimilarity(s[Len(s)], SortBySimilarity(SubSeq(s, 1, Len(s) - 1)))

\* for ... in similarities: if keep: selected.append(idx); if len(selected) >= cap: break
RECURSIVE SelectUntil(_, _, _, _)
SelectUntil(ranked, keep, cap, selected) ==
    IF ranked = <<>> THEN selected
    ELSE LET sel == IF keep[1] THEN Append(selected, ranked[1].idx) ELSE selected
         IN  IF Len(sel) >= cap THEN sel
             ELSE SelectUntil(Tail(ranked), Tail(keep), cap, sel)

\* The part of adaptive_search after the question has been embedded.
SelectBySimilarity(query_type, query_embedding, embeddings, metadata) ==
    LET similarities == SortBySimilarity(
            [i \in DOMAIN embeddings |->
                [idx |-> i, sim |-> cosine_similarity(query_embedding, embeddings[i])]])
    IN  IF query_type = "counting"
        THEN SelectUntil(similarities,
                [k \in DOMAIN similarities |->
                    \/ /\ metadata[similarities[k].idx].type = "structured_data"
                       /\ SimAtLeast(similarities[k].sim, 30)
                    \/ SimAtLeast(similarities[k].sim, 60)],
                15, <<>>)
        ELSE IF query_type = "analysis"
        THEN SelectUntil(similarities,
                [k \in DOMAIN similarities |-> SimAtLeast(similarities[k].sim, 50)],
                10, <<>>)
        ELSE LET top == SubSeq(similarities, 1, IF Len(similarities) < 8
                                                  THEN Len(similarities) ELSE 8)
             IN  SelectSeq([k \in DOMAIN top |->
                                IF SimAtLeast(top[k].sim, 70) THEN top[k].idx ELSE 0],
                           LAMBDA i : i # 0)

\* adaptive_search, given what get_embedding returned for the question.
adaptive_search(query_type, query_embedding, embeddings, metadata) ==
    IF query_embedding = <<>> THEN <<>>
    ELSE SelectBySimilarity(query_type, query_embedding, embeddings, metadata)

(***************************************************************************)
(* ChunkingService.load_and_process_document and the embedding cache       *)
(*                                                                         *)
(* The document is a text file (its lines), a file that is not UTF-8 text, *)
(* or missing.  The cache directory maps a content hash to the bytes of    *)
(* the pickle file of that name.                                           *)
(***************************************************************************)
NoFileHash == [ok |-> FALSE, of |-> <<>>]

\* get_file_hash: the MD5 of the bytes (taken as collision-free), "" when the
\* file cannot be opened.
get_file_hash(f) ==
    IF f.kind = "missing" THEN NoFileHash
    ELSE [ok |-> TRUE, of |-> <<f.kind, f.lines>>]

PickleKeys == <<"file_hash", "timestamp", "chunks", "chunk_embeddings", "chunk_metadata">>

\* A dump that keeps the first element of every list only.
PickleDumpFirstOnly(d) ==
    [k \in DOMAIN PickleKeys |->
        [key |-> PickleKeys[k],
         value |-> IF k >= 3 /\ Len(d[PickleKeys[k]]) > 1
                   THEN SubSeq(d[PickleKeys[k]], 1, 1)
                   ELSE d[PickleKeys[k]]]]

\* pickle.dump of the cache_data dictionary: its items, in insertion order.
PickleDump(d) == [k \in DOMAIN PickleKeys |-> [key |-> PickleKeys[k], value |-> d[PickleKeys[k]]]]

\* pickle.load: the dictionary, when the stream is complete.
PickleLoad(bytes) ==
    IF Len(bytes) = Len(PickleKeys)
    THEN [ok |-> TRUE,
          data |-> [key \in Range(PickleKeys) |->
                      bytes[CHOOSE k \in DOMAIN bytes : bytes[k].key = key].value]]
    ELSE [ok |-> FALSE, data |-> <<>>]

\* A test that compares the hash only.
CacheHitIgnoringTimestamp(f, dir) ==
    LET file_hash == get_file_hash(f)
    IN  /\ file_hash \in DOMAIN dir
        /\ LET loaded == PickleLoad(dir[file_hash])
           IN  /\ loaded.ok
               /\ loaded.data["file_hash"] = file_hash
               /\ f.kind # "missing"

\* The test that guards "Loading from cache...".
CacheHit(f, dir) ==
    LET file_hash == get_file_hash(f)
    IN  /\ file_hash \in DOMAIN dir
        /\ LET loaded == PickleLoad(dir[file_hash])
           IN  /\ loaded.ok
               /\ loaded.data["file_hash"] = file_hash
               /\ f.kind # "missing"
               /\ loaded.data["timestamp"] = f.mtime

None3 == [none |-> TRUE, chunks |-> <<>>, chunk_embeddings |-> <<>>, chunk_metadata |-> <<>>]

Triple(c, e, m) == [none |-> FALSE, chunks |-> c, chunk_embeddings |-> e, chunk_metadata |-> m]

\* What the embedding service can answer to one call made with `token`.
IngestBodies == {b \in EmbBodies : b.vec \in {<<>>, <<1, 0>>, <<3, 4>>}}

EmbeddingOutcomes(token) ==
    {get_embedding(token, s, body) : s \in ScriptsFor(token), body \in IngestBodies}

\* The calls of get_embedding made by the loop over n chunks: the vectors
\* obtained, up to the first failure.
RECURSIVE EmbeddingRuns(_, _)
EmbeddingRuns(token, n) ==
    IF n = 0 THEN {[embs |-> <<>>, ok |-> TRUE, calls |-> 0, token |-> token]}
    ELSE UNION { IF o.embedding = <<>>
                 THEN {[embs |-> <<>>, ok |-> FALSE, calls |-> 1, token |-> o.token]}
                 ELSE {[embs |-> <<o.embedding>> \o r.embs, ok |-> r.ok,
                        calls |-> r.calls + 1, token |-> r.token] :
                            r \in EmbeddingRuns(o.token, n - 1)} :
                 o \in EmbeddingOutcomes(token) }

\* A loop that appends the chunk before it looks at the embedding and goes on
\* to the end of the run.
EmbeddingLoopAppendFirst(chunks_data, run) ==
    [ok |-> TRUE,
     chunks |-> [i \in 1..run.calls |-> chunks_data[i].content],
     chunk_embeddings |-> run.embs,
     chunk_metadata |-> [i \in 1..Len(run.embs) |-> chunks_data[i]]]

\* for i, chunk_data in enumerate(chunks_data): ... the three lists built, and
\* whether the loop ran to its end.
EmbeddingLoop(chunks_data, run) ==
    [ok |-> run.ok,
     chunks |-> [i \in 1..Len(run.embs) |-> chunks_data[i].content],
     chunk_embeddings |-> run.embs,
     chunk_metadata |-> [i \in 1..Len(run.embs) |-> chunks_data[i]]]

WriteOutcomes == {"written", "open_failed", "dump_failed"}

\* A failure exit that falls through to the code that caches and returns.
EmbeddingFailedFallsThrough(dir, file_hash, mtime, built) ==
    [ret |-> Triple(built.chunks, built.chunk_embeddings, built.chunk_metadata),
     dir |-> [h \in DOMAIN dir \cup {file_hash} |->
                IF h = file_hash
                THEN PickleDump([file_hash |-> file_hash, timestamp |-> mtime,
                                 chunks |-> built.chunks,
                                 chunk_embeddings |-> built.chunk_embeddings,
                                 chunk_metadata |-> built.chunk_metadata])
                ELSE dir[h]],
     path |-> "embedding_failed"]

\* if not embedding: return None, None, None
EmbeddingFailed(dir, file_hash, mtime, built) ==
    [ret |-> None3, dir |-> dir, path |-> "embedding_failed"]

\* The try block that writes the cache file, and the return that follows it.
CacheAndReturn(dir, file_hash, mtime, built, write) ==
    LET cache_data == [file_hash |-> file_hash, timestamp |-> mtime,
                       chunks |-> built.chunks,
                       chunk_embeddings |-> built.chunk_embeddings,
                       chunk_metadata |-> built.chunk_metadata]
        bytes == PickleDump(cache_data)
    IN  [ret |-> Triple(built.chunks, built.chunk_embeddings, built.chunk_metadata),
         dir |-> CASE write = "written" ->
                        [h \in DOMAIN dir \cup {file_hash} |->
                            IF h = file_hash THEN bytes ELSE dir[h]]
                   [] write = "dump_failed" ->
                        [h \in DOMAIN dir \cup {file_hash} |->
                            IF h = file_hash THEN SubSeq(bytes, 1, 2) ELSE dir[h]]
                   [] write = "open_failed" -> dir,
         path |-> "fresh"]

\* ChunkingService.load_and_process_document(file_path), the embedding calls
\* answering as in `run` and the cache write ending as `write`.
ChunkingLoad(f, dir, run, write) ==
    LET file_hash == get_file_hash(f)
    IN  IF CacheHit(f, dir)
        THEN LET cached_data == PickleLoad(dir[file_hash]).data
             IN  [ret |-> Triple(cached_data["chunks"], cached_data["chunk_embeddings"],
                                 cached_data["chunk_metadata"]),
                  dir |-> dir, path |-> "cache"]
        ELSE IF f.kind # "text"
        THEN [ret |-> None3, dir |-> dir, path |-> "read_failed"]
        ELSE LET built == EmbeddingLoop(create_adaptive_chunks(f.lines), run)
             IN  IF ~built.ok
                 THEN EmbeddingFailed(dir, file_hash, f.mtime, built)
                 ELSE CacheAndReturn(dir, file_hash, f.mtime, built, write)

\* The number of get_embedding calls a call of ChunkingLoad makes.
ChunksToEmbed(f, dir) ==
    IF CacheHit(f, dir) \/ f.kind # "text" THEN 0
    ELSE Len(create_adaptive_chunks(f.lines))

(***************************************************************************)
(* LLMService, QualityEvaluator, ResultSynthesizer                         *)
(***************************************************************************)
\* What a 200 response of the completion service carries: a text, an empty
\* content, or a body without the expected fields.
LlmBodies == {"text", "empty", "malformed"}

LLM_ANSWER == "<completion text>"

\* The completion client without its except clause: what requests.post raises,
\* or the missing field of a malformed body, leaves the call as an exception.
query_gpt5_without_except(token, s, body) ==
    LET a == ensure_authenticated(token, s.idp1)
    IN  IF ~a.ok
        THEN [answer |-> "Authentication failed", token |-> a.token, raised |-> FALSE]
        ELSE LET p == PostWithRefresh(a.token, s)
                 failed == p.resp = "raise" \/ (p.resp = "200" /\ body = "malformed")
                 answer ==
                    CASE failed -> NoValue
                      [] p.resp = "200" /\ body = "empty" -> "No response generated"
                      [] p.resp = "200" /\ body = "text" -> LLM_ANSWER
                      [] p.resp = "401" -> "GPT-5 request failed: 401"
                      [] p.resp = "500" -> "GPT-5 request failed: 500"
             IN  [answer |-> answer, token |-> p.token, raised |-> failed]

query_gpt5_with_cot(token, s, body) ==
    LET a == ensure_authenticated(token, s.idp1)
    IN  IF ~a.ok
        THEN [answer |-> "Authentication failed", token |-> a.token, raised |-> FALSE]
        ELSE LET p == PostWithRefresh(a.token, s)
                 answer ==
                    CASE p.resp = "raise" -> "GPT-5 error: <exception>"
                      [] p.resp = "200" /\ body = "malformed" -> "GPT-5 error: <exception>"
                      [] p.resp = "200" /\ body = "empty" -> "No response generated"
                      [] p.resp = "200" /\ body = "text" -> LLM_ANSWER
                      [] p.resp = "401" -> "GPT-5 request failed: 401"
                      [] p.resp = "500" -> "GPT-5 request failed: 500"
             IN  [answer |-> answer, token |-> p.token, raised |-> FALSE]

SYNTHESIS == "<synthesis text>"

synthesize_results(token, s, body) ==
    LET a == ensure_authenticated(token, s.idp1)
    IN  IF ~a.ok
        THEN [answer |-> "Error: Could not authenticate for synthesis",
              token |-> a.token, raised |-> FALSE]
        ELSE LET p == PostWithRefresh(a.token, s)
                 answer ==
                    CASE p.resp = "raise" -> "Synthesis error: <exception>"
                      [] p.resp = "200" /\ body = "malformed" -> "Synthesis error: <exception>"
                      [] p.resp = "200" /\ body = "empty" -> ""
                      [] p.resp = "200" /\ body = "text" -> SYNTHESIS
                      [] p.resp = "401" -> "Synthesis error: 401"
                      [] p.resp = "500" -> "Synthesis error: 500"
             IN  [answer |-> answer, token |-> p.token, raised |-> FALSE]

\* What a 200 response of the completion service carries for the evaluator:
\* a JSON object with the three sections (each present or not, with a score),
\* JSON that is not an object, text that is not JSON, an empty content, or a
\* body without the expected fields.
QualBody(kind, scores, present) == [kind |-> kind, scores |-> scores, present |-> present]

default_metrics ==
    [groundedness |-> [score |-> 0, reasoning |-> "Evaluation unavailable"],
     accuracy |-> [score |-> 0, reasoning |-> "Evaluation unavailable"],
     relevance |-> [score |-> 0, reasoning |-> "Evaluation unavailable"],
     overall_assessment |->
        [average_tenths |-> 0, acceptable |-> FALSE,
         summary |-> "Quality metrics evaluation failed", needs_review |-> TRUE]]

\* A score reported as it was returned.
NoClamp(x) == x

\* max(0, min(100, x))
Clamp(x) == IF x > 100 THEN 100 ELSE IF x < 0 THEN 0 ELSE x

\* round(sum / 3, 1), in tenths
RoundedMeanTenths(sum) == (20 * sum + 3) \div 6

format_metrics_response(raw) ==
    IF raw.kind # "json" THEN default_metrics
    ELSE LET score(k) == IF raw.present[k] THEN raw.scores[k] ELSE 0
             reasoning(k) == IF raw.present[k] THEN "<reasoning>"
                             ELSE "No evaluation available"
             sum == score(1) + score(2) + score(3)
         IN  [groundedness |-> [score |-> Clamp(score(1)), reasoning |-> reasoning(1)],
              accuracy |-> [score |-> Clamp(score(2)), reasoning |-> reasoning(2)],
              relevance |-> [score |-> Clamp(score(3)), reasoning |-> reasoning(3)],
              overall_assessment |->
                 [average_tenths |-> RoundedMeanTenths(sum), acceptable |-> sum >= 240,
                  summary |-> "<summary>", needs_review |-> sum < 240]]

\* The evaluator without its except clauses: what requests.post raises, a
\* body without the expected fields and a content that is not JSON leave the
\* call as an exception.
evaluate_without_except(token, s, body) ==
    LET a == ensure_authenticated(token, s.idp1)
    IN  IF ~a.ok THEN [metrics |-> default_metrics, token |-> a.token, raised |-> FALSE]
        ELSE LET p == PostWithRefresh(a.token, s)
                 failed == \/ p.resp = "raise"
                           \/ p.resp = "200" /\ body.kind \in {"malformed", "not_json"}
             IN  IF p.resp = "200" /\ body.kind \in {"json", "not_object"}
                 THEN [metrics |-> format_metrics_response(body), token |-> p.token,
                       raised |-> FALSE]
                 ELSE [metrics |-> default_metrics, token |-> p.token, raised |-> failed]

evaluate_answer_quality(token, s, body) ==
    LET a == ensure_authenticated(token, s.idp1)
    IN  IF ~a.ok THEN [metrics |-> default_metrics, token |-> a.token, raised |-> FALSE]
        ELSE LET p == PostWithRefresh(a.token, s)
             IN  IF p.resp = "200" /\ body.kind \in {"json", "not_object"}
                 THEN [metrics |-> format_metrics_response(body), token |-> p.token,
                       raised |-> FALSE]
                 ELSE [metrics |-> default_metrics, token |-> p.token, raised |-> FALSE]

(***************************************************************************)
(* GeneralPurposeRAG.query, SubQueryExecutor and EnhancedRAG.enhanced_query *)
(* as one sequential process: one step per call of an external service.    *)
(***************************************************************************)
\* A progress update that always reports its step as active.
EventAlwaysActive(step, status, detail) ==
    [step |-> step, status |-> "active", detail |-> detail]

Event(step, status, detail) == [step |-> step, status |-> status, detail |-> detail]

NoFrame == [question |-> Text(<<>>, 0), query_type |-> NoValue, indices |-> <<>>,
            answer |-> NoValue, llm_calls |-> 0, quality_calls |-> 0, auth_failed |-> {}]

\* The step of query, if a token request failed in it.
FailedAt(step, token, s) == IF TokenRequestFailed(token, s) THEN {step} ELSE {}

\* query(question) up to the call of adaptive_search
EnterQuery(question) ==
    [question |-> question, query_type |-> classify_query(question), indices |-> <<>>,
     answer |-> NoValue, llm_calls |-> 0, quality_calls |-> 0, auth_failed |-> {}]

\* A threshold test that is off by one.
IsSimpleQueryUpToThree(query_complexity) == query_complexity <= 3

\* orchestrator: if query_complexity < 3
IsSimpleQuery(query_complexity) == query_complexity < 3

\* A query that goes on to generation with an empty selection.
NothingSelectedIgnored(relevant_chunk_indices) == FALSE

\* query: if not relevant_chunk_indices
NothingSelected(relevant_chunk_indices) == relevant_chunk_indices = <<>>

NoRelevantResult(frame) ==
    [question |-> frame.question, answer |-> "No relevant chunks found",
     query_type |-> frame.query_type, chunks_analyzed |-> 0]

FullResult(frame, metrics) ==
    [question |-> frame.question, answer |-> frame.answer,
     query_type |-> frame.query_type, chunks_analyzed |-> Len(frame.indices),
     chunk_types |-> [t \in {chunk_metadata[i].type : i \in Range(frame.indices)} |->
                         Cardinality({k \in DOMAIN frame.indices :
                                        chunk_metadata[frame.indices[k]].type = t})],
     quality_metrics |-> metrics,
     relevant_chunk_indices |-> frame.indices]

LogEntry(frame, res) ==
    [question |-> frame.question, selected |-> Len(frame.indices),
     answer |-> res.answer, chunks_analyzed |-> res.chunks_analyzed,
     llm_calls |-> frame.llm_calls, quality_calls |-> frame.quality_calls,
     auth_failed |-> frame.auth_failed]

\* enhanced_query(question) up to the first call of an external service
EnhancedQuery(question) ==
    /\ epc = "idle"
    /\ LET query_complexity == assess_query_complexity(question)
           sub_queries == decompose_complex_query(question)
       IN  /\ eq' = question
           /\ ecx' = query_complexity
           /\ IF IsSimpleQuery(query_complexity)
              THEN /\ events' = events \o
                        << Event("analysis", "active", NoValue),
                           Event("analysis", "completed", "Low") >>
                   /\ esubs' = <<>>
                   /\ ei' = 0
                   /\ cur' = EnterQuery(question)
                   /\ hist' = [hist EXCEPT !.query = Append(@, question)]
              ELSE /\ events' = events \o
                        << Event("analysis", "active", NoValue),
                           Event("analysis", "completed", "High"),
                           Event("decomposition", "active", NoValue),
                           Event("decomposition", "completed", NoValue),
                           Event(sub_queries[1].focus, "active", NoValue) >>
                   /\ esubs' = sub_queries
                   /\ ei' = 1
                   /\ cur' = EnterQuery(sub_queries[1].query)
                   /\ hist' = [hist EXCEPT !.decompose = @ + 1, !.execute = @ + 1,
                                           !.query = Append(@, sub_queries[1].query)]
           /\ epc' = "search"
    /\ UNCHANGED <<access_token, sub_results, result, qlog>>
    /\ UNCHANGED <<dvars, ivars, fvars, xvars>>

\* A loop over the sub-queries that ends at the first that analyzed no chunk.
MoreSubQueriesUntilEmpty(i, sub_queries, res) ==
    i < Len(sub_queries) /\ res.chunks_analyzed # 0

\* for sub_query in sub_queries: whether another follows the i-th.
MoreSubQueries(i, sub_queries, res) == i < Len(sub_queries)

\* What follows the return of query(...), called with `frame`, with the object res.
QueryReturns(frame, res) ==
    /\ qlog' = Append(qlog, LogEntry(frame, res))
    /\ IF ei = 0
       THEN /\ result' = res
            /\ epc' = "returned"
            /\ cur' = NoFrame
            /\ UNCHANGED <<sub_results, events, ei, hist>>
       ELSE /\ sub_results' = Append(sub_results,
                    [focus |-> esubs[ei].focus, query |-> esubs[ei].query,
                     answer |-> res.answer, type |-> esubs[ei].type,
                     chunks_analyzed |-> res.chunks_analyzed])
            /\ UNCHANGED result
            /\ IF MoreSubQueries(ei, esubs, res)
               THEN /\ events' = events \o
                        << Event(esubs[ei].focus, "completed",
                                 IF res.answer # "" THEN res.answer
                                 ELSE "Processing completed"),
                           Event(esubs[ei + 1].focus, "active", NoValue) >>
                    /\ ei' = ei + 1
                    /\ cur' = EnterQuery(esubs[ei + 1].query)
                    /\ hist' = [hist EXCEPT !.query = Append(@, esubs[ei + 1].query)]
                    /\ epc' = "search"
               ELSE /\ events' = events \o
                        << Event(esubs[ei].focus, "completed",
                                 IF res.answer # "" THEN res.answer
                                 ELSE "Processing completed"),
                           Event("synthesis", "active", NoValue) >>
                    /\ cur' = NoFrame
                    /\ epc' = "synthesize"
                    /\ UNCHANGED <<ei, hist>>

\* query: adaptive_search, and the return when nothing was selected
Search ==
    /\ epc = "search"
    /\ \E s \in ScriptsFor(access_token), body \in EmbBodies :
          LET r == get_embedding(access_token, s, body)
              relevant_chunk_indices ==
                  adaptive_search(cur.query_type, r.embedding,
                                  chunk_embeddings, chunk_metadata)
              frame == [cur EXCEPT !.auth_failed = @ \cup FailedAt("search", access_token, s)]
          IN  /\ access_token' = r.token
              /\ IF NothingSelected(relevant_chunk_indices)
                 THEN QueryReturns(frame, NoRelevantResult(frame))
                 ELSE /\ cur' = [frame EXCEPT !.indices = relevant_chunk_indices]
                      /\ epc' = "generate"
                      /\ UNCHANGED <<sub_results, result, events, ei, hist, qlog>>
    /\ UNCHANGED <<eq, ecx, esubs>>
    /\ UNCHANGED <<dvars, ivars, fvars, xvars>>

\* query: llm_service.query_gpt5_with_cot
Generate ==
    /\ epc = "generate"
    /\ \E s \in ScriptsFor(access_token), body \in LlmBodies :
          LET r == query_gpt5_with_cot(access_token, s, body)
          IN  /\ access_token' = r.token
              /\ IF r.raised
                 THEN /\ epc' = "raised"
                      /\ UNCHANGED cur
                 ELSE /\ epc' = "evaluate"
                      /\ cur' = [cur EXCEPT !.answer = r.answer, !.llm_calls = @ + 1,
                                             !.auth_failed =
                                                @ \cup FailedAt("generate", access_token, s)]
    /\ UNCHANGED <<eq, ecx, esubs, ei, sub_results, result, events, hist, qlog>>
    /\ UNCHANGED <<dvars, ivars, fvars, xvars>>

QualBodies ==
    { QualBody("json", <<90, 80, 70>>, <<TRUE, TRUE, TRUE>>),
      QualBody("json", <<150, -5, 100>>, <<TRUE, TRUE, FALSE>>),
      QualBody("not_json", <<0, 0, 0>>, <<FALSE, FALSE, FALSE>>),
      QualBody("empty", <<0, 0, 0>>, <<FALSE, FALSE, FALSE>>) }

\* query: quality_evaluator.evaluate_answer_quality, and the return
Evaluate ==
    /\ epc = "evaluate"
    /\ \E s \in ScriptsFor(access_token), body \in QualBodies :
          LET r == evaluate_answer_quality(access_token, s, body)
              frame == [cur EXCEPT !.quality_calls = @ + 1,
                                   !.auth_failed =
                                      @ \cup FailedAt("evaluate", access_token, s)]
          IN  /\ access_token' = r.token
              /\ IF r.raised
                 THEN /\ epc' = "raised"
                      /\ UNCHANGED <<cur, sub_results, result, events, ei, hist, qlog>>
                 ELSE QueryReturns(frame, FullResult(frame, r.metrics))
    /\ UNCHANGED <<eq, ecx, esubs>>
    /\ UNCHANGED <<dvars, ivars, fvars, xvars>>

\* The same object without the key that names the path.
DecompositionResultUntagged(question, final_answer, sub_queries, results, query_complexity) ==
    [question |-> question, answer |-> final_answer,
     sub_queries_count |-> Len(sub_queries),
     sub_results |-> results, complexity |-> query_complexity]

\* The object enhanced_query returns at the end of the decomposition path.
DecompositionResult(question, final_answer, sub_queries, results, query_complexity) ==
    [question |-> question, answer |-> final_answer,
     approach |-> "decomposition",
     sub_queries_count |-> Len(sub_queries),
     sub_results |-> results, complexity |-> query_complexity]

\* process_query: result.get('approach') == 'decomposition'
TakenAsDecomposition(res) ==
    "approach" \in DOMAIN res /\ res.approach = "decomposition"

\* enhanced_query: synthesizer.synthesize_results, and the return
Synthesize ==
    /\ epc = "synthesize"
    /\ \E s \in ScriptsFor(access_token), body \in LlmBodies :
          LET r == synthesize_results(access_token, s, body)
          IN  /\ access_token' = r.token
              /\ IF r.raised
                 THEN /\ epc' = "raised"
                      /\ UNCHANGED <<result, events>>
                 ELSE /\ epc' = "returned"
                      /\ result' = DecompositionResult(eq, r.answer, esubs, sub_results, ecx)
                      /\ events' = events \o
                            << Event("synthesis", "completed", NoValue),
                               Event("complete", "active", NoValue),
                               Event("complete", "completed", NoValue) >>
    /\ hist' = [hist EXCEPT !.synth = @ + 1]
    /\ UNCHANGED <<eq, ecx, esubs, ei, cur, sub_results, qlog>>
    /\ UNCHANGED <<dvars, ivars, fvars, xvars>>

\* The document index a question is answered against: the chunker's chunks of
\* `lines` with the embeddings `embs`.
IndexOf(lines, embs) ==
    LET chunks_data == create_adaptive_chunks(lines)
    IN  [chunks |-> [i \in DOMAIN chunks_data |-> chunks_data[i].content],
         chunk_embeddings |-> embs,
         chunk_metadata |-> chunks_data]

QueryIndexes ==
    { IndexOf(<<>>, <<>>),
      IndexOf(<<"2024001234 Israel", "  plain text  ">>, << <<1, 2>>, <<3, 4>> >>),
      IndexOf(<<"plain text", "", "SUMMARY", "QE-1042 spray">>,
              << <<1, 0>>, <<0, 1>>, <<3, 4>> >>) }

\* Questions put to enhanced_query: every subset of two categories, followed
\* by 0 to 3 of: a conjunction, more than CommaLimit commas, more than
\* WordLimit words; and a period comparison with a CAPA status and CommaLimit
\* commas, of WordLimit words and of one word more.
QueryCategories == {"overall_numbers", "capa_details"}

QueryQuestions ==
    { Question(S, 1, "declared",
               IF extras >= 1 THEN "And" ELSE NoValue,
               IF extras >= 3 THEN WordLimit + 1 ELSE 0,
               IF extras >= 2 THEN CommaLimit + 1 ELSE 0) :
        S \in SUBSET QueryCategories, extras \in 0..3 }
        \cup { Question({"comparison", "capa_details"}, 1, "declared", NoValue, f,
                         CommaLimit) : f \in FillerChoices }

NoHist == [decompose |-> 0, execute |-> 0, synth |-> 0, query |-> <<>>]

\* The pipeline with no call of enhanced_query in progress.
QueryVarsAt(pc) ==
    /\ epc = pc
    /\ eq = Text(<<>>, 0)
    /\ ecx = -1
    /\ esubs = <<>>
    /\ ei = 0
    /\ cur = NoFrame
    /\ sub_results = <<>>
    /\ result = [answer |-> NoValue]
    /\ events = <<>>
    /\ hist = NoHist
    /\ qlog = <<>>

NoCall == [path |-> NoValue]

\* No document on disk, an empty cache directory and no ingestion made.
FileVarsOff ==
    /\ file = [kind |-> "missing", lines |-> <<>>, mtime |-> 0]
    /\ cache = <<>>
    /\ last = NoCall
    /\ prev = NoCall
    /\ steps = 0
    /\ selection = NoCall

\* No call of the chunker or of a service client, and no streamed request.
ExtraVarsOff ==
    /\ chunked = NoCall
    /\ client = NoCall
    /\ stream = NoCall
    /\ server = NoCall

DecomposerVarsOff ==
    /\ dq = Text(<<>>, 0)
    /\ dsub = <<>>
    /\ dcx = -1
    /\ dcalled = {"decompose", "assess"}

InitQuery ==
    /\ DecomposerVarsOff
    /\ ExtraVarsOff
    /\ FileVarsOff
    /\ access_token \in {NoValue, "bearer"}
    /\ \E index \in QueryIndexes :
          /\ chunks = index.chunks
          /\ chunk_embeddings = index.chunk_embeddings
          /\ chunk_metadata = index.chunk_metadata
    /\ QueryVarsAt("idle")

NextQuery ==
    \/ \E question \in QueryQuestions : EnhancedQuery(question)
    \/ Search
    \/ Generate
    \/ Evaluate
    \/ Synthesize

SpecQuery == InitQuery /\ [][NextQuery]_vars

DecomposerQuestions ==
    { Question(S, v, o, c, f, k) :
        S \in SUBSET Categories, v \in {1, 2}, o \in Orders,
        c \in {NoValue, "And"}, f \in FillerChoices, k \in CommaChoices }

(***************************************************************************)
(* The decomposer on its own: both functions applied to one question.      *)
(***************************************************************************)
InitDecomposer ==
    /\ ExtraVarsOff
    /\ dq \in DecomposerQuestions
    /\ dsub = <<>>
    /\ dcx = -1
    /\ dcalled = {}
    /\ access_token = NoValue
    /\ chunks = <<>>
    /\ chunk_embeddings = <<>>
    /\ chunk_metadata = <<>>
    /\ QueryVarsAt("off")
    /\ FileVarsOff

DecomposeCall ==
    /\ "decompose" \notin dcalled
    /\ dsub' = decompose_complex_query(dq)
    /\ dcalled' = dcalled \cup {"decompose"}
    /\ UNCHANGED <<dq, dcx>>
    /\ UNCHANGED <<ivars, evars, fvars, xvars>>

AssessCall ==
    /\ "assess" \notin dcalled
    /\ dcx' = assess_query_complexity(dq)
    /\ dcalled' = dcalled \cup {"assess"}
    /\ UNCHANGED <<dq, dsub>>
    /\ UNCHANGED <<ivars, evars, fvars, xvars>>

NextDecomposer == DecomposeCall \/ AssessCall

SpecDecomposer == InitDecomposer /\ [][NextDecomposer]_vars

(***************************************************************************)
(* Chunking: one call of create_adaptive_chunks on a document made of      *)
(* pieces: runs of lines of one content type, and blank lines.             *)
(***************************************************************************)
MaxPieces == 2

\* Two different lines of each content type.
LinesOfType ==
    [structured_data |-> <<"2024001234 Israel", "QE-1042 spray">>,
     tabular |-> <<"a,b,c,d", "a\tb\tc\td">>,
     header |-> <<"SUMMARY", "Details:">>,
     text |-> <<"  plain text  ", "more text">>]

\* n lines of one type, the two lines of the type in turn.
Run(type, n) == [i \in 1..n |-> LinesOfType[type][2 - (i % 2)]]

\* Runs of one line, of a full budget and of one line more; two lines of a
\* type with blank lines between them; blank lines alone.
Pieces ==
    {Run(type, 1) : type \in DOMAIN LinesOfType}
        \cup {Run(type, CHUNK_SIZES[type]) : type \in DOMAIN LinesOfType}
        \cup {Run(type, CHUNK_SIZES[type] + 1) : type \in DOMAIN LinesOfType}
        \cup {<<LinesOfType[type][1], "", "   ", LinesOfType[type][2]>> :
                    type \in DOMAIN LinesOfType}
        \cup {<<"", "   ">>}

ChunkerDocuments == {Flatten(ps) : ps \in SeqsUpTo(Pieces, MaxPieces)}

InitChunker ==
    /\ DecomposerVarsOff
    /\ QueryVarsAt("off")
    /\ FileVarsOff
    /\ access_token = NoValue
    /\ chunks = <<>>
    /\ chunk_embeddings = <<>>
    /\ chunk_metadata = <<>>
    /\ client = NoCall
    /\ stream = NoCall
    /\ server = NoCall
    /\ \E lines \in ChunkerDocuments : chunked = [path |-> "ready", lines |-> lines]

CreateAdaptiveChunks ==
    /\ chunked.path = "ready"
    /\ chunked' = [path |-> "done", lines |-> chunked.lines,
                   made |-> create_adaptive_chunks(chunked.lines)]
    /\ UNCHANGED <<dvars, ivars, evars, fvars, client, stream, server>>

NextChunker == CreateAdaptiveChunks

SpecChunker == InitChunker /\ [][NextChunker]_vars

(***************************************************************************)
(* One call of a service client: EmbeddingService.get_embedding,           *)
(* LLMService.query_gpt5_with_cot, ResultSynthesizer.synthesize_results or *)
(* QualityEvaluator.evaluate_answer_quality, on an AuthManager that holds  *)
(* a token or none, against every script of the outside world.             *)
(***************************************************************************)
ClientTokens == {NoValue, "bearer"}

\* Score triples the completion service may return to the evaluator, in and
\* out of 0..100, around the acceptance threshold.
EvaluatorScores ==
    { <<90, 80, 70>>, <<79, 80, 80>>, <<150, 100, -5>>, <<-100, 100, 100>>,
      <<200, 200, 200>> }

\* The sections of the JSON object that are there.
EvaluatorPresent == { <<TRUE, TRUE, TRUE>>, <<TRUE, TRUE, FALSE>>, <<FALSE, FALSE, FALSE>> }

\* The average_score the completion service wrote in its overall_assessment,
\* in tenths.
EvaluatorClaimed == {0, 995}

EvaluatorBodies ==
    [kind : {"json"}, scores : EvaluatorScores, present : EvaluatorPresent,
     claimed : EvaluatorClaimed]
        \cup [kind : {"not_object", "not_json", "empty", "malformed"},
              scores : {<<0, 0, 0>>}, present : {<<FALSE, FALSE, FALSE>>},
              claimed : {0}]

ClientCall(service, token, s, body, out) ==
    [path |-> "done", service |-> service, token |-> token, script |-> s, body |-> body,
     http |-> HttpExchange(token, s), out |-> out]

InitClient ==
    /\ DecomposerVarsOff
    /\ QueryVarsAt("off")
    /\ FileVarsOff
    /\ access_token = NoValue
    /\ chunks = <<>>
    /\ chunk_embeddings = <<>>
    /\ chunk_metadata = <<>>
    /\ chunked = NoCall
    /\ stream = NoCall
    /\ server = NoCall
    /\ \E token \in ClientTokens : client = [path |-> "ready", token |-> token]

GetEmbedding ==
    /\ client.path = "ready"
    /\ \E s \in ScriptsFor(client.token), body \in EmbBodies :
          client' = ClientCall("embedding", client.token, s, body,
                               get_embedding(client.token, s, body))
    /\ UNCHANGED <<dvars, ivars, evars, fvars, chunked, stream, server>>

QueryGpt5WithCot ==
    /\ client.path = "ready"
    /\ \E s \in ScriptsFor(client.token), body \in LlmBodies :
          client' = ClientCall("completion", client.token, s, [kind |-> body],
                               query_gpt5_with_cot(client.token, s, body))
    /\ UNCHANGED <<dvars, ivars, evars, fvars, chunked, stream, server>>

SynthesizeResults ==
    /\ client.path = "ready"
    /\ \E s \in ScriptsFor(client.token), body \in LlmBodies :
          client' = ClientCall("synthesis", client.token, s, [kind |-> body],
                               synthesize_results(client.token, s, body))
    /\ UNCHANGED <<dvars, ivars, evars, fvars, chunked, stream, server>>

EvaluateAnswerQuality ==
    /\ client.path = "ready"
    /\ \E s \in ScriptsFor(client.token), body \in EvaluatorBodies :
          client' = ClientCall("quality", client.token, s, body,
                               evaluate_answer_quality(client.token, s, body))
    /\ UNCHANGED <<dvars, ivars, evars, fvars, chunked, stream, server>>

NextClient ==
    \/ GetEmbedding
    \/ QueryGpt5WithCot
    \/ SynthesizeResults
    \/ EvaluateAnswerQuality

SpecClient == InitClient /\ [][NextClient]_vars

(***************************************************************************)
(* process_query_stream: the background thread that runs the query and     *)
(* puts updates on progress_queue, and the generator that gets them and    *)
(* yields them to the client.                                              *)
(***************************************************************************)
MaxEvents == 3

\* An update as the generator sees it: update.get('type'), and the step of a
\* progress update (which has no 'type' key).
Update(type, step) == [type |-> type, step |-> step]

ProgressUpdates == {Update(NoValue, "analysis"), Update(NoValue, "synthesis")}

\* A generator that takes no update as the end of the stream.
EndsStreamNever(update) == FALSE

\* if update.get('type') == 'done': break
EndsStream(update) == update.type = "done"

\* progress_queue.put(update)
Put(update) ==
    [stream EXCEPT !.queue = Append(@, update), !.put = Append(@, update)]

InitStream ==
    /\ DecomposerVarsOff
    /\ QueryVarsAt("off")
    /\ FileVarsOff
    /\ access_token = NoValue
    /\ chunks = <<>>
    /\ chunk_embeddings = <<>>
    /\ chunk_metadata = <<>>
    /\ chunked = NoCall
    /\ client = NoCall
    /\ server = NoCall
    /\ \E todo \in SeqsUpTo(ProgressUpdates, MaxEvents) :
          stream = [path |-> "open", todo |-> todo, worker |-> "try",
                    queue |-> <<>>, put |-> <<>>, sent |-> <<>>,
                    generator |-> "get", ended_by |-> NoValue]

\* progress_callback, called by enhanced_query in the background thread
ProgressCallback ==
    /\ stream.path = "open"
    /\ stream.worker = "try"
    /\ stream.todo # <<>>
    /\ stream' = [Put(Head(stream.todo)) EXCEPT !.todo = Tail(stream.todo)]
    /\ UNCHANGED <<dvars, ivars, evars, fvars, chunked, client, server>>

\* enhanced_query returned: progress_queue.put({'type': 'result', ...})
WorkerResult ==
    /\ stream.path = "open"
    /\ stream.worker = "try"
    /\ stream.todo = <<>>
    /\ stream' = [Put(Update("result", NoValue)) EXCEPT !.worker = "finally"]
    /\ UNCHANGED <<dvars, ivars, evars, fvars, chunked, client, server>>

\* An except clause after which the try block goes on.
WorkerErrorGoesOn ==
    /\ stream.path = "open"
    /\ stream.worker = "try"
    /\ stream' = Put(Update("error", NoValue))
    /\ UNCHANGED <<dvars, ivars, evars, fvars, chunked, client, server>>

\* Something in the try block raised: progress_queue.put({'type': 'error', ...})
WorkerError ==
    /\ stream.path = "open"
    /\ stream.worker = "try"
    /\ stream' = [Put(Update("error", NoValue)) EXCEPT !.worker = "finally"]
    /\ UNCHANGED <<dvars, ivars, evars, fvars, chunked, client, server>>

\* finally: progress_queue.put({'type': 'done'})
WorkerFinally ==
    /\ stream.path = "open"
    /\ stream.worker = "finally"
    /\ stream' = [Put(Update("done", NoValue)) EXCEPT !.worker = "end"]
    /\ UNCHANGED <<dvars, ivars, evars, fvars, chunked, client, server>>

\* generate: progress_queue.get returned an update
GenerateGet ==
    /\ stream.path = "open"
    /\ stream.generator = "get"
    /\ stream.queue # <<>>
    /\ LET update == Head(stream.queue)
       IN  IF EndsStream(update)
           THEN stream' = [stream EXCEPT !.queue = Tail(@), !.generator = "ended",
                                         !.ended_by = "done"]
           ELSE stream' = [stream EXCEPT !.queue = Tail(@),
                                         !.sent = Append(@, update)]
    /\ UNCHANGED <<dvars, ivars, evars, fvars, chunked, client, server>>

\* generate: progress_queue.get raised queue.Empty after the 60 seconds
GenerateTimeout ==
    /\ stream.path = "open"
    /\ stream.generator = "get"
    /\ stream.queue = <<>>
    /\ stream' = [stream EXCEPT !.generator = "ended", !.ended_by = "timeout"]
    /\ UNCHANGED <<dvars, ivars, evars, fvars, chunked, client, server>>

NextStream ==
    \/ ProgressCallback
    \/ WorkerResult
    \/ WorkerError
    \/ WorkerFinally
    \/ GenerateGet
    \/ GenerateTimeout

SpecStream == InitStream /\ [][NextStream]_vars

(***************************************************************************)
(* Ingestion: GeneralPurposeRAG.load_and_process_document, called again    *)
(* and again while the document and the cache directory change on disk.    *)
(***************************************************************************)
MaxSteps == 4

\* Documents of no, one and two chunks.
Documents == { <<>>, <<"plain text", "more text">>, <<"2024001234 Israel", "plain text">> }

TextFile(lines, mtime) == [kind |-> "text", lines |-> lines, mtime |-> mtime]

InitIngest ==
    /\ DecomposerVarsOff
    /\ ExtraVarsOff
    /\ QueryVarsAt("off")
    /\ access_token = NoValue
    /\ chunks = <<>>
    /\ chunk_embeddings = <<>>
    /\ chunk_metadata = <<>>
    /\ file \in {TextFile(d, 0) : d \in Documents}
                  \cup {[kind |-> "missing", lines |-> <<>>, mtime |-> 0]}
    /\ cache = <<>>
    /\ last = NoCall
    /\ prev = NoCall
    /\ steps = 0
    /\ selection = NoCall

\* GeneralPurposeRAG.load_and_process_document(file_path)
LoadAndProcessDocument ==
    /\ steps < MaxSteps
    /\ \E run \in EmbeddingRuns(access_token, ChunksToEmbed(file, cache)),
          write \in WriteOutcomes :
          LET r == ChunkingLoad(file, cache, run, write)
          IN  /\ cache' = r.dir
              /\ access_token' = run.token
              /\ IF r.ret.none
                 THEN UNCHANGED ivars
                 ELSE /\ chunks' = r.ret.chunks
                      /\ chunk_embeddings' = r.ret.chunk_embeddings
                      /\ chunk_metadata' = r.ret.chunk_metadata
              /\ last' = [path |-> r.path, ret |-> r.ret, returned |-> ~r.ret.none,
                          run |-> run, write |-> write, file |-> file,
                          before |-> cache, after |-> r.dir]
              /\ prev' = last
    /\ steps' = steps + 1
    /\ UNCHANGED <<file, selection, xvars, dvars, epc, eq, ecx, esubs, ei, cur, sub_results, result,
                   events, hist, qlog>>

Changed == steps' = steps + 1

DiskOnly == UNCHANGED <<dvars, ivars, evars, xvars, last, prev, selection>>

\* The document is written anew.
WriteFile(d) ==
    /\ steps < MaxSteps
    /\ file' = TextFile(d, file.mtime + 1)
    /\ Changed /\ DiskOnly /\ UNCHANGED cache

\* The document gets a new modification time, its bytes unchanged.
TouchFile ==
    /\ steps < MaxSteps
    /\ file.kind # "missing"
    /\ file' = [file EXCEPT !.mtime = @ + 1]
    /\ Changed /\ DiskOnly /\ UNCHANGED cache

\* The document is replaced by bytes that are not UTF-8 text.
WriteBinary ==
    /\ steps < MaxSteps
    /\ file' = [kind |-> "binary", lines |-> <<>>, mtime |-> file.mtime + 1]
    /\ Changed /\ DiskOnly /\ UNCHANGED cache

\* A cache file is cut short.
TruncateCacheFile(h) ==
    /\ steps < MaxSteps
    /\ h \in DOMAIN cache
    /\ Len(cache[h]) = Len(PickleKeys)
    /\ cache' = [cache EXCEPT ![h] = SubSeq(@, 1, 2)]
    /\ Changed /\ DiskOnly /\ UNCHANGED file

\* A cache file is copied to the name the document's hash gives.
CopyCacheFile(h) ==
    /\ steps < MaxSteps
    /\ h \in DOMAIN cache
    /\ get_file_hash(file) # h
    /\ cache' = [g \in DOMAIN cache \cup {get_file_hash(file)} |->
                    IF g = get_file_hash(file) THEN cache[h] ELSE cache[g]]
    /\ Changed /\ DiskOnly /\ UNCHANGED file

NextIngest ==
    \/ LoadAndProcessDocument
    \/ \E d \in Documents : WriteFile(d)
    \/ TouchFile
    \/ WriteBinary
    \/ \E h \in DOMAIN cache : TruncateCacheFile(h)
    \/ \E h \in DOMAIN cache : CopyCacheFile(h)

SpecIngest == InitIngest /\ [][NextIngest]_vars

(***************************************************************************)
(* The server: one pipeline (rag_system) and one system_status shared by   *)
(* the request threads.  A load-document request, a query request and a    *)
(* streamed request run side by side; a thread can be preempted between    *)
(* any two stores or loads of an attribute of the pipeline.                *)
(***************************************************************************)
MaxLoads == 2

NoDocument == [kind |-> "missing", lines |-> <<>>, mtime |-> 0]

\* The documents a load-document request can name: of two chunks, of one
\* chunk, and a file that exists and is not UTF-8 text.
ServerDocuments ==
    { TextFile(<<"2024001234 Israel", "plain text">>, 0),
      TextFile(<<"plain text", "more text">>, 0),
      [kind |-> "binary", lines |-> <<>>, mtime |-> 0] }

Pipelines == {"modular", "legacy"}

\* The embedding service answers a chunk with one vector or fails; the cache
\* directory is writable.
ServerRuns(token, n) ==
    {run \in EmbeddingRuns(token, n) : \A i \in DOMAIN run.embs : run.embs[i] = <<1, 0>>}

ServerWrites == {"written"}

\* The three lists of the shared pipeline.
PipelineIndex ==
    [chunks |-> chunks, chunk_embeddings |-> chunk_embeddings,
     chunk_metadata |-> chunk_metadata]

IndexFields == <<"chunks", "chunk_embeddings", "chunk_metadata">>

\* self.chunks, self.chunk_embeddings, self.chunk_metadata = result: one store
\* per attribute, left to right.
StoreAll == [k \in DOMAIN IndexFields |-> [op |-> "store", field |-> IndexFields[k], i |-> 0]]

\* self.chunks = []; self.chunk_embeddings = []; self.chunk_metadata = []
ResetAll == [k \in DOMAIN IndexFields |-> [op |-> "reset", field |-> IndexFields[k], i |-> 0]]

\* self.chunks.append(content); self.chunk_embeddings.append(embedding);
\* self.chunk_metadata.append(chunk_data), for the i-th chunk.
AppendAll(i) == [k \in DOMAIN IndexFields |-> [op |-> "append", field |-> IndexFields[k], i |-> i]]

\* The modular load_and_process_document: the index returned by the chunking
\* service is stored, or nothing is when it returned None.
ModularLoad(f, dir, run, write) ==
    LET r == ChunkingLoad(f, dir, run, write)
    IN  [success |-> ~r.ret.none,
         target |-> [chunks |-> r.ret.chunks, chunk_embeddings |-> r.ret.chunk_embeddings,
                     chunk_metadata |-> r.ret.chunk_metadata],
         stores |-> IF r.ret.none THEN <<>> ELSE StoreAll,
         dir |-> r.dir]

\* The legacy load_and_process_document: the lists of a cache file are stored;
\* otherwise the three lists are emptied and filled chunk by chunk, up to the
\* chunk whose embedding fails.
LegacyLoad(f, dir, run, write) ==
    LET file_hash == get_file_hash(f)
    IN  IF CacheHit(f, dir)
        THEN LET cached_data == PickleLoad(dir[file_hash]).data
             IN  [success |-> TRUE,
                  target |-> [chunks |-> cached_data["chunks"],
                              chunk_embeddings |-> cached_data["chunk_embeddings"],
                              chunk_metadata |-> cached_data["chunk_metadata"]],
                  stores |-> StoreAll, dir |-> dir]
        ELSE IF f.kind # "text"
        THEN [success |-> FALSE,
              target |-> [chunks |-> <<>>, chunk_embeddings |-> <<>>, chunk_metadata |-> <<>>],
              stores |-> <<>>, dir |-> dir]
        ELSE LET chunks_data == create_adaptive_chunks(f.lines)
                 built == EmbeddingLoop(chunks_data, run)
             IN  [success |-> run.ok,
                  target |-> [chunks |-> built.chunks,
                              chunk_embeddings |-> built.chunk_embeddings,
                              chunk_metadata |-> built.chunk_metadata],
                  stores |-> ResetAll \o Flatten([i \in 1..Len(run.embs) |-> AppendAll(i)]),
                  dir |-> IF run.ok
                          THEN CacheAndReturn(dir, file_hash, f.mtime, built, write).dir
                          ELSE dir]

PipelineLoad(pipeline, f, dir, run, write) ==
    IF pipeline = "modular" THEN ModularLoad(f, dir, run, write)
    ELSE LegacyLoad(f, dir, run, write)

\* One store, reset or append made on the lists `index`.
ApplyStore(index, target, st) ==
    [index EXCEPT ![st.field] =
        CASE st.op = "reset" -> <<>>
          [] st.op = "store" -> target[st.field]
          [] st.op = "append" -> Append(@, target[st.field][st.i])]

EmptyIndex == [chunks |-> <<>>, chunk_embeddings |-> <<>>, chunk_metadata |-> <<>>]

IdleLoad ==
    [pc |-> "idle", document |-> NoDocument, success |-> FALSE, target |-> EmptyIndex,
     stores |-> <<>>, before |-> EmptyIndex]

IdleQuery ==
    [pc |-> "off", query_type |-> NoValue, chunk_embeddings |-> <<>>, chunk_metadata |-> <<>>,
     relevant_chunk_indices |-> <<>>, relevant_chunks |-> <<>>, chunk_types |-> <<>>,
     raised |-> NoValue]

IdleWorker == [pc |-> "off", accepted |-> NoDocument, document |-> NoDocument]

InitServer ==
    /\ DecomposerVarsOff
    /\ QueryVarsAt("off")
    /\ FileVarsOff
    /\ access_token = NoValue
    /\ chunks = <<>>
    /\ chunk_embeddings = <<>>
    /\ chunk_metadata = <<>>
    /\ chunked = NoCall
    /\ client = NoCall
    /\ stream = NoCall
    /\ \E pipeline \in Pipelines :
          server = [path |-> "serving", pipeline |-> pipeline,
                    system_status |-> [document_loaded |-> FALSE,
                                       current_document |-> NoDocument],
                    loads |-> 0, load |-> IdleLoad, installed |-> {},
                    returned |-> [made |-> FALSE, success |-> FALSE,
                                  before |-> EmptyIndex, after |-> EmptyIndex],
                    query |-> IdleQuery, worker |-> IdleWorker]

ServerFrame ==
    UNCHANGED <<dvars, epc, eq, ecx, esubs, ei, cur, sub_results, result, events, hist, qlog,
                file, last, prev, steps, selection, chunked, client, stream>>

\* load_document, up to the call of load_and_process_document: the document is
\* read, chunked and embedded, and the stores to make on the pipeline are known.
LoadDocument ==
    /\ server.load.pc = "idle"
    /\ server.loads < MaxLoads
    /\ \E f \in ServerDocuments :
       \E run \in ServerRuns(access_token, ChunksToEmbed(f, cache)),
          write \in ServerWrites :
          LET r == PipelineLoad(server.pipeline, f, cache, run, write)
          IN  /\ cache' = r.dir
              /\ access_token' = run.token
              /\ server' = [server EXCEPT
                    !.loads = @ + 1,
                    !.load = [pc |-> "storing", document |-> f, success |-> r.success,
                              target |-> r.target, stores |-> r.stores,
                              before |-> PipelineIndex],
                    !.installed = IF r.success THEN @ \cup {r.target} ELSE @]
    /\ UNCHANGED ivars
    /\ ServerFrame

\* The next store of the running load_and_process_document.
LoadDocumentStore ==
    /\ server.load.pc = "storing"
    /\ server.load.stores # <<>>
    /\ LET after == ApplyStore(PipelineIndex, server.load.target, Head(server.load.stores))
       IN  /\ chunks' = after.chunks
           /\ chunk_embeddings' = after.chunk_embeddings
           /\ chunk_metadata' = after.chunk_metadata
    /\ server' = [server EXCEPT !.load.stores = Tail(@)]
    /\ UNCHANGED <<access_token, cache>>
    /\ ServerFrame

\* load_and_process_document returns; load_document sets system_status when
\* it returned True.
LoadDocumentReturn ==
    /\ server.load.pc = "storing"
    /\ server.load.stores = <<>>
    /\ server' = [server EXCEPT
          !.load = IdleLoad,
          !.returned = [made |-> TRUE, success |-> server.load.success,
                        before |-> server.load.before, after |-> PipelineIndex],
          !.system_status = IF server.load.success
                            THEN [document_loaded |-> TRUE,
                                  current_document |-> server.load.document]
                            ELSE @]
    /\ UNCHANGED <<ivars, access_token, cache>>
    /\ ServerFrame

\* process_query accepts a question once a document is loaded.
ProcessQuery ==
    /\ server.query.pc = "off"
    /\ server.system_status.document_loaded
    /\ \E query_type \in {"counting", "general"} :
          server' = [server EXCEPT !.query = [IdleQuery EXCEPT !.pc = "embeddings",
                                                          !.query_type = query_type]]
    /\ UNCHANGED <<ivars, access_token, cache>>
    /\ ServerFrame

\* query: self.chunk_embeddings is read for the search.
QueryReadEmbeddings ==
    /\ server.query.pc = "embeddings"
    /\ server' = [server EXCEPT !.query.pc = "metadata",
                                !.query.chunk_embeddings = chunk_embeddings]
    /\ UNCHANGED <<ivars, access_token, cache>>
    /\ ServerFrame

\* query: self.chunk_metadata is read for the search.
QueryReadMetadata ==
    /\ server.query.pc = "metadata"
    /\ server' = [server EXCEPT !.query.pc = "search",
                                !.query.chunk_metadata = chunk_metadata]
    /\ UNCHANGED <<ivars, access_token, cache>>
    /\ ServerFrame

\* query: adaptive_search on the lists read, and the early return when it
\* selects nothing.  chunk_metadata[chunk_idx] raises IndexError when the
\* metadata read are fewer than the embeddings read.
QueryAdaptiveSearch ==
    /\ server.query.pc = "search"
    /\ \E o \in EmbeddingOutcomes(access_token) :
          LET q == server.query
              short == /\ o.embedding # <<>>
                       /\ q.query_type = "counting"
                       /\ Len(q.chunk_metadata) < Len(q.chunk_embeddings)
              relevant_chunk_indices ==
                  IF short THEN <<>>
                  ELSE adaptive_search(q.query_type, o.embedding, q.chunk_embeddings,
                                       q.chunk_metadata)
          IN  /\ access_token' = o.token
              /\ server' = [server EXCEPT
                    !.query.relevant_chunk_indices = relevant_chunk_indices,
                    !.query.raised = IF short THEN "IndexError" ELSE @,
                    !.query.pc = IF short THEN "raised"
                                 ELSE IF relevant_chunk_indices = <<>> THEN "no_chunks"
                                 ELSE "lookup"]
    /\ UNCHANGED <<ivars, cache>>
    /\ ServerFrame

\* query: relevant_chunks = [self.chunks[i] for i in relevant_chunk_indices]
QueryLookupChunks ==
    /\ server.query.pc = "lookup"
    /\ LET indices == server.query.relevant_chunk_indices
       IN  IF \E k \in DOMAIN indices : indices[k] > Len(chunks)
           THEN server' = [server EXCEPT !.query.pc = "raised",
                                         !.query.raised = "IndexError"]
           ELSE server' = [server EXCEPT
                    !.query.pc = "types",
                    !.query.relevant_chunks = [k \in DOMAIN indices |-> chunks[indices[k]]]]
    /\ UNCHANGED <<ivars, access_token, cache>>
    /\ ServerFrame

\* query: chunk_type = self.chunk_metadata[idx]['type'] for every index.
QueryChunkTypes ==
    /\ server.query.pc = "types"
    /\ LET indices == server.query.relevant_chunk_indices
       IN  IF \E k \in DOMAIN indices : indices[k] > Len(chunk_metadata)
           THEN server' = [server EXCEPT !.query.pc = "raised",
                                         !.query.raised = "IndexError"]
           ELSE server' = [server EXCEPT
                    !.query.pc = "looked_up",
                    !.query.chunk_types =
                        [k \in DOMAIN indices |-> chunk_metadata[indices[k]].type]]
    /\ UNCHANGED <<ivars, access_token, cache>>
    /\ ServerFrame

\* process_query_stream accepts a question once a document is loaded and
\* starts the worker thread.
ProcessQueryStream ==
    /\ server.worker.pc = "off"
    /\ server.system_status.document_loaded
    /\ server' = [server EXCEPT
          !.worker = [pc |-> "started",
                      accepted |-> server.system_status.current_document,
                      document |-> NoDocument]]
    /\ UNCHANGED <<ivars, access_token, cache>>
    /\ ServerFrame

\* process_in_background: temp_rag, a pipeline of the worker's own, loads
\* system_status['current_document'].
ProcessInBackground ==
    /\ server.worker.pc = "started"
    /\ LET f == server.system_status.current_document
       IN  \E run \in ServerRuns(NoValue, ChunksToEmbed(f, cache)),
              write \in ServerWrites :
              /\ cache' = ChunkingLoad(f, cache, run, write).dir
              /\ server' = [server EXCEPT !.worker.pc = "loaded",
                                          !.worker.document = f]
    /\ UNCHANGED <<ivars, access_token>>
    /\ ServerFrame

NextServer ==
    \/ LoadDocument
    \/ LoadDocumentStore
    \/ LoadDocumentReturn
    \/ ProcessQuery
    \/ QueryReadEmbeddings
    \/ QueryReadMetadata
    \/ QueryAdaptiveSearch
    \/ QueryLookupChunks
    \/ QueryChunkTypes
    \/ ProcessQueryStream
    \/ ProcessInBackground

SpecServer == InitServer /\ [][NextServer]_vars

(***************************************************************************)
(* Claims about the decomposer                                             *)
(***************************************************************************)
FocusOf(category) ==
    CASE category = "overall_numbers" -> "overall_numbers"
      [] category = "comparison" -> "comparison"
      [] category = "market_specific" -> "israel_market"
      [] category = "capa_details" -> "capa"
      [] category = "complaint_reasons" -> "reasons"
      [] category = "trends_patterns" -> "trends"

DeclIndex(focus) ==
    CASE focus = "overall_numbers" -> 1
      [] focus = "comparison" -> 2
      [] focus = "israel_market" -> 3
      [] focus = "capa" -> 4
      [] focus = "reasons" -> 5
      [] focus = "trends" -> 6
      [] OTHER -> 0

MatchedCategories(q) == {c \in Categories : CategoryMatches(c, LowerAll(q.toks))}

CountFocus(s, focus) == Cardinality({i \in DOMAIN s : s[i].focus = focus})

ExtraComplexity(q) ==
    (IF WordCount(q) > 30 THEN 1 ELSE 0)
    + (IF q.commas > 2 THEN 1 ELSE 0)
    + (IF \E i \in DOMAIN q.toks : Lower(q.toks[i]) \in Conjunctions THEN 1 ELSE 0)

\* C9: decompose_complex_query returns exactly one sub-query for each category
\* that matches the question and none for a category that does not; when no
\* category matches it returns the single sub-query carrying the original
\* question unchanged at priority 1; the number of sub-queries is max(1, k),
\* k being the number of categories assess_query_complexity counted.
C9_OnePerMatchedCategory ==
    ("decompose" \in dcalled) =>
        LET matched == MatchedCategories(dq)
            k == dcx - ExtraComplexity(dq)
        IN  /\ \A c \in Categories :
                  CountFocus(dsub, FocusOf(c)) = (IF c \in matched THEN 1 ELSE 0)
            /\ matched = {} =>
                  /\ Len(dsub) = 1
                  /\ dsub[1].query = dq
                  /\ dsub[1].priority = 1
            /\ matched # {} => CountFocus(dsub, "general") = 0
            /\ ("assess" \in dcalled) => Len(dsub) = (IF k > 1 THEN k ELSE 1)

C9_Witness ==
    /\ dcalled = {"decompose", "assess"}
    /\ Cardinality(MatchedCategories(dq)) = 3
    /\ Len(dsub) = 3
    /\ dcx = 5

C9_WitnessNoMatch ==
    /\ dcalled = {"decompose", "assess"}
    /\ MatchedCategories(dq) = {}
    /\ dq.toks # <<>>
    /\ Len(dsub) = 1

\* C10: the list returned by decompose_complex_query is in non-decreasing
\* priority order, and sub-queries of equal priority appear in the order in
\* which their categories are declared in the pattern table.
C10_SortedStable ==
    ("decompose" \in dcalled) =>
        \A i \in DOMAIN dsub : \A j \in DOMAIN dsub :
            i < j =>
                /\ dsub[i].priority <= dsub[j].priority
                /\ (dsub[i].priority = dsub[j].priority /\ dsub[i].focus # "general")
                      => DeclIndex(dsub[i].focus) < DeclIndex(dsub[j].focus)

C10_Witness ==
    /\ "decompose" \in dcalled
    /\ Len(dsub) = 6
    /\ dsub[2].focus = "comparison"
    /\ dsub[5].focus = "trends"
    /\ dsub[6].focus = "capa"

(***************************************************************************)
(* Claims about query and enhanced_query                                   *)
(***************************************************************************)
Serving == epc \notin {"idle", "off"}

\* C4: enhanced_query takes the decomposition path (decompose, execute the
\* sub-queries, synthesize) if and only if assess_query_complexity(question)
\* is at least 3; below 3 it runs exactly one direct query, on the original
\* question, and calls neither decompose, the executor nor the synthesizer.
C4_DecompositionIffComplex ==
    Serving =>
        LET c == assess_query_complexity(eq)
        IN  /\ c < 3 =>
                /\ hist.decompose = 0 /\ hist.execute = 0 /\ hist.synth = 0
                /\ hist.query = <<eq>>
                /\ epc = "returned" => "approach" \notin DOMAIN result
            /\ c >= 3 =>
                /\ hist.decompose = 1 /\ hist.execute = 1
                /\ esubs = decompose_complex_query(eq)
                /\ epc = "returned" =>
                      /\ hist.synth = 1
                      /\ hist.query = [k \in DOMAIN esubs |-> esubs[k].query]
                      /\ result.approach = "decomposition"

C4_Witness ==
    /\ epc = "returned"
    /\ assess_query_complexity(eq) = 3
    /\ hist.synth = 1
    /\ Len(hist.query) = 2

C4_WitnessDirect ==
    /\ epc = "returned"
    /\ assess_query_complexity(eq) = 2
    /\ hist.query = <<eq>>

\* C5: when the retriever selects no chunk for a question, query returns the
\* fixed no-relevant-content answer with chunks_analyzed = 0, and neither the
\* completion service nor the quality evaluator was called for that question.
C5_EmptyRetrieval ==
    /\ \A k \in DOMAIN qlog :
          qlog[k].selected = 0 =>
              /\ qlog[k].answer = "No relevant chunks found"
              /\ qlog[k].chunks_analyzed = 0
              /\ qlog[k].llm_calls = 0
              /\ qlog[k].quality_calls = 0
    /\ (epc = "returned" /\ ei = 0 /\ qlog[1].selected = 0) =>
          /\ result.answer = "No relevant chunks found"
          /\ result.chunks_analyzed = 0
          /\ "quality_metrics" \notin DOMAIN result

C5_Witness ==
    /\ epc = "returned"
    /\ ei = 0
    /\ chunks # <<>>
    /\ access_token # NoValue
    /\ qlog[1].selected = 0
    /\ result.answer = "No relevant chunks found"

\* C6: whatever the identity provider, the embedding service, the completion
\* service and the quality evaluator do while a question is answered, query
\* and enhanced_query return an object whose answer is a text; no exception
\* leaves them, on the direct path and on the decomposition path.
C6_NeverRaises ==
    /\ epc # "raised"
    /\ epc = "returned" => (result.answer \in STRING /\ result.answer # NoValue)
    /\ \A k \in DOMAIN qlog : qlog[k].answer \in STRING /\ qlog[k].answer # NoValue

C6_Witness ==
    /\ epc = "returned"
    /\ access_token = NoValue
    /\ "approach" \in DOMAIN result
    /\ result.answer = "Error: Could not authenticate for synthesis"
    /\ \E k \in DOMAIN sub_results : sub_results[k].answer = "No relevant chunks found"

C6_WitnessDirect ==
    /\ epc = "returned"
    /\ ei = 0
    /\ result.answer = "GPT-5 error: <exception>"
    /\ result.quality_metrics = default_metrics

\* The progress events of the sub-queries, in the order sent.
SubQueryEvents ==
    SelectSeq(events, LAMBDA e : e.step \notin {"analysis", "decomposition", "synthesis",
                                                 "complete"})

\* C11: execute_sub_queries takes the sub-queries one at a time in list order:
\* for each, the event (focus, active), one run of query on the sub-query's
\* text, the event (focus, completed), and only then the next sub-query; every
\* sub-query is executed, whatever the answers of the earlier ones.
C11_OneAtATimeInOrder ==
    (Serving /\ esubs # <<>>) =>
        LET E == SubQueryEvents
            started == Len(hist.query)
            finished == Len(qlog)
        IN  /\ Len(E) = started + finished
            /\ finished <= started /\ started <= finished + 1
            /\ started <= Len(esubs)
            /\ \A k \in DOMAIN E :
                  /\ E[k].step = esubs[(k + 1) \div 2].focus
                  /\ E[k].status = (IF k % 2 = 1 THEN "active" ELSE "completed")
            /\ \A i \in 1..started : hist.query[i] = esubs[i].query
            /\ \A i \in 1..finished : qlog[i].question = esubs[i].query
            /\ epc \in {"search", "generate", "evaluate"} =>
                  started = finished + 1 /\ ei = started
            /\ epc \in {"synthesize", "returned"} => finished = Len(esubs)

\* Two sub-queries were executed, the first of them finding no chunk.
C11_Witness ==
    /\ epc = "returned"
    /\ Len(esubs) = 2
    /\ Len(qlog) = 2
    /\ qlog[1].chunks_analyzed = 0
    /\ qlog[2].chunks_analyzed > 0
    /\ Len(SubQueryEvents) = 4

\* C12 as written: every result enhanced_query returns, from either path,
\* carries a tag that names the path.
C12_AsWritten ==
    epc = "returned" => "approach" \in DOMAIN result

\* C12: a result of the decomposition path carries approach = "decomposition";
\* a result of the direct path, the empty-retrieval result included, carries no
\* approach key at all, and a consumer tells the paths apart by the presence
\* of the tag.
C12_TagOnDecompositionOnly ==
    epc = "returned" =>
        /\ hist.decompose = 1 =>
              "approach" \in DOMAIN result /\ result.approach = "decomposition"
        /\ hist.decompose = 0 => "approach" \notin DOMAIN result
        /\ TakenAsDecomposition(result) <=> hist.decompose = 1

\* The direct path returned the empty-retrieval result.
C12_Witness ==
    /\ epc = "returned"
    /\ hist.decompose = 0
    /\ result.answer = "No relevant chunks found"
    /\ ~TakenAsDecomposition(result)

\* The decomposition path returned.
C12_WitnessDecomposition ==
    /\ epc = "returned"
    /\ hist.decompose = 1
    /\ TakenAsDecomposition(result)

(***************************************************************************)
(* The legacy pipeline of test2.py: classify_query_type, chunk metadata,   *)
(* adaptive_chunk_selection and fallback_chunk_selection.  A text is its   *)
(* sequence of words; chunk indices are 1-based here, 0-based in the code. *)
(***************************************************************************)
LegacyPatterns ==
    [counting |->
        << [first |-> {"how many"}, then |-> {}], [first |-> {"count"}, then |-> {}],
           [first |-> {"number of"}, then |-> {}],
           [first |-> {"total"},
            then |-> {"complaint", "complaints", "entry", "entries", "record", "records",
                      "item", "items"}],
           [first |-> {"list"}, then |-> {"all"}], [first |-> {"find"}, then |-> {"all"}] >>,
     analysis |->
        << [first |-> {"analyz", "analyze", "analyzs"}, then |-> {}],
           [first |-> {"compare"}, then |-> {}], [first |-> {"trend"}, then |-> {}],
           [first |-> {"summar", "summary", "summarz", "summarye", "summarze"}, then |-> {}],
           [first |-> {"evaluat", "evaluate", "evaluats"}, then |-> {}],
           [first |-> {"assess"}, then |-> {}], [first |-> {"review"}, then |-> {}],
           [first |-> {"report"}, then |-> {}] >>,
     search |->
        << [first |-> {"find"}, then |-> {}], [first |-> {"search"}, then |-> {}],
           [first |-> {"lookup", "look up", "look-up"}, then |-> {}],
           [first |-> {"show"}, then |-> {"where"}], [first |-> {"what"}, then |-> {"is"}],
           [first |-> {"tell me about"}, then |-> {}] >>]

\* re.search of a pattern made of whole words: one word, or one word followed
\* later by another.
WordSearch(p, words) ==
    IF p.then = {} THEN \E i \in DOMAIN words : words[i] \in p.first
    ELSE \E i \in DOMAIN words : \E j \in DOMAIN words :
            i < j /\ words[i] \in p.first /\ words[j] \in p.then

PatternScore(patterns, words) ==
    Cardinality({k \in DOMAIN patterns : WordSearch(patterns[k], words)})

\* The entity keywords in the order the code tests them.
EntityKeywordTests ==
    << <<"israel", "israel">>, <<"substantiated", "substantiated">>,
       <<"unsubstantiated", "unsubstantiated">>, <<"capa", "capa">>, <<"qe-", "qe_format">> >>

classify_query_type(query) ==
    LET query_lower == LowerAll(query)
        scores == [t \in {"counting", "analysis", "search"} |->
                      PatternScore(LegacyPatterns[t], query_lower)]
    IN  [primary_type |->
            IF scores["counting"] >= scores["analysis"] /\ scores["counting"] >= scores["search"]
            THEN "counting"
            ELSE IF scores["analysis"] >= scores["search"] THEN "analysis" ELSE "search",
         entity_keywords |->
            Flatten([k \in DOMAIN EntityKeywordTests |->
                        IF \E i \in DOMAIN query_lower : query_lower[i] = EntityKeywordTests[k][1]
                        THEN <<EntityKeywordTests[k][2]>> ELSE <<>>]),
         scores |-> scores]

\* is_complaint_data_line, for a line given as its words.
is_complaint_data_line(words) ==
    /\ words # <<>>
    /\ \/ words[1] = "2024001234"
       \/ words[1] = "QE-1042"
       \/ /\ \E i \in DOMAIN words :
                Lower(words[i]) \in {"israel", "usa", "uk", "germany", "france", "canada",
                                     "australia", "singapore", "india", "china"}
          /\ Len(words) >= 4
       \/ /\ \E i \in DOMAIN words :
                Lower(words[i]) \in {"spray", "pump", "device", "substance", "dose",
                                     "nasal", "complaint"}
          /\ Len(words) >= 3

\* calculate_chunk_metadata, for a chunk of one line: the fields the
\* selection reads.
calculate_chunk_metadata(words) ==
    [content |-> words,
     type |-> IF is_complaint_data_line(words) THEN "complaint_data" ELSE "regular",
     entities |-> {e \in {"israel", "usa", "uk", "germany", "france", "singapore"} :
                      \E i \in DOMAIN words : Lower(words[i]) = e}]

\* The loop "for chunk_idx, similarity in similarities" of the three
\* strategies: stop when max_chunks are selected, else add what is kept.
RECURSIVE FillUntil(_, _, _, _)
FillUntil(ranked, keep, max_chunks, selected_chunks) ==
    IF ranked = <<>> \/ Cardinality(selected_chunks) >= max_chunks THEN selected_chunks
    ELSE FillUntil(Tail(ranked), Tail(keep), max_chunks,
                   IF keep[1] THEN selected_chunks \cup {ranked[1].idx} ELSE selected_chunks)

\* sorted(list(selected_chunks))
RECURSIVE Sorted(_)
Sorted(S) ==
    IF S = {} THEN <<>>
    ELSE LET m == CHOOSE x \in S : \A y \in S : x <= y
         IN  <<m>> \o Sorted(S \ {m})

\* fallback_chunk_selection(query, query_classification, max_chunks)
fallback_chunk_selection(query, query_classification, max_chunks, index) ==
    LET entity_keywords == query_classification.entity_keywords
        keywords == Range(entity_keywords)
                        \cup {w \in Range(LowerAll(query)) : Len(w) > 3}
        InChunk(word, i) ==
            \E k \in DOMAIN index[i].content : Contains(Lower(index[i].content[k]), word)
        score(i) ==
            10 * Cardinality({k \in DOMAIN entity_keywords : InChunk(entity_keywords[k], i)})
            + Cardinality({w \in keywords : InChunk(w, i)})
            + (IF index[i].type = "complaint_data" THEN 2 ELSE 0)
        scored == {i \in DOMAIN index : score(i) >= 5}
        complaints == IF query_classification.primary_type = "counting"
                      THEN {i \in DOMAIN index :
                              /\ index[i].type = "complaint_data"
                              /\ \E k \in DOMAIN entity_keywords :
                                    InChunk(entity_keywords[k], i)}
                      ELSE {}
        ordered == Sorted(scored \cup complaints)
    IN  SubSeq(ordered, 1, IF Len(ordered) < max_chunks THEN Len(ordered) ELSE max_chunks)

\* adaptive_chunk_selection(query, query_classification, max_chunks), given
\* what get_embedding returned for the question.
adaptive_chunk_selection(query, query_classification, max_chunks, query_embedding, index) ==
    IF query_embedding = <<>>
    THEN fallback_chunk_selection(query, query_classification, max_chunks, index)
    ELSE
    LET similarities == SortBySimilarity(
            [i \in DOMAIN index |->
                [idx |-> i, sim |-> cosine_similarity(query_embedding, index[i].embedding)]])
        AtLeast(percent) ==
            [k \in DOMAIN similarities |-> SimAtLeast(similarities[k].sim, percent)]
        entity_chunks ==
            {i \in DOMAIN index :
                \E k \in DOMAIN query_classification.entity_keywords :
                    query_classification.entity_keywords[k] \in index[i].entities}
        complaint_chunks ==
            SelectSeq([i \in DOMAIN index |-> [idx |-> i]],
                      LAMBDA c : index[c.idx].type = "complaint_data")
        top_complaints ==
            SubSeq(complaint_chunks, 1,
                   IF Len(complaint_chunks) < 10 THEN Len(complaint_chunks) ELSE 10)
        selected_chunks ==
            IF query_classification.primary_type = "counting"
            THEN FillUntil(similarities, AtLeast(40), max_chunks, entity_chunks)
            ELSE IF query_classification.primary_type = "analysis"
            THEN FillUntil(top_complaints, [k \in DOMAIN top_complaints |-> TRUE], max_chunks,
                           FillUntil(similarities, AtLeast(30), max_chunks, {}))
            ELSE FillUntil(similarities, AtLeast(30), max_chunks, {})
    IN  Sorted(selected_chunks)

(***************************************************************************)
(* Selection: one call of adaptive_chunk_selection on a legacy index.      *)
(***************************************************************************)
MaxIndex == 3
MaxChunksArg == 2

SelectionQueries ==
    { <<"count", "Israel", "complaints">>, <<"Israel">>, <<"analyze", "CAPA", "pump">>,
      <<"find", "notes">>, <<"review", "search", "notes">> }

ChunkTexts ==
    { <<"2024001234", "Israel", "pump", "substantiated">>, <<"Israel", "summary">>,
      <<"QE-1042", "spray", "USA">>, <<"notes">> }

\* A chunk of the legacy index: its metadata and its embedding.
LegacyChunks ==
    { [content |-> calculate_chunk_metadata(t).content,
       type |-> calculate_chunk_metadata(t).type,
       entities |-> calculate_chunk_metadata(t).entities,
       embedding |-> v] : t \in ChunkTexts, v \in {<<1, 0>>, <<3, 4>>} }

\* create_enhanced_chunks starts a chunk where the type of the lines changes:
\* chunks of one line each alternate in type.
LegacyIndexes ==
    {index \in SeqsUpTo(LegacyChunks, MaxIndex) :
        \A i \in 1..(Len(index) - 1) : index[i].type # index[i + 1].type}

InitSelect ==
    /\ DecomposerVarsOff
    /\ ExtraVarsOff
    /\ QueryVarsAt("off")
    /\ access_token = NoValue
    /\ chunks = <<>>
    /\ chunk_embeddings = <<>>
    /\ chunk_metadata = <<>>
    /\ file = [kind |-> "missing", lines |-> <<>>, mtime |-> 0]
    /\ cache = <<>>
    /\ last = NoCall
    /\ prev = NoCall
    /\ steps = 0
    /\ \E query \in SelectionQueries, index \in LegacyIndexes,
          max_chunks \in 1..MaxChunksArg :
          selection = [path |-> "ready", query |-> query, index |-> index,
                       query_classification |-> classify_query_type(query),
                       max_chunks |-> max_chunks]

AdaptiveChunkSelection ==
    /\ selection.path = "ready"
    /\ \E query_embedding \in {<<>>, <<1, 0>>, <<0, 1>>} :
          selection' =
              [path |-> IF query_embedding = <<>> THEN "fallback" ELSE "adaptive",
               query |-> selection.query, index |-> selection.index,
               query_classification |-> selection.query_classification,
               max_chunks |-> selection.max_chunks,
               query_embedding |-> query_embedding,
               result |-> adaptive_chunk_selection(selection.query,
                              selection.query_classification, selection.max_chunks,
                              query_embedding, selection.index)]
    /\ UNCHANGED <<dvars, ivars, evars, xvars, file, cache, last, prev, steps>>

NextSelect == AdaptiveChunkSelection

SpecSelect == InitSelect /\ [][NextSelect]_vars

(***************************************************************************)
(* Claims about the legacy selection, checked under SpecSelect             *)
(***************************************************************************)
Selected == selection.path \in {"adaptive", "fallback"}

\* C3: for every classification, and for the keyword fallback, the list
\* adaptive_chunk_selection returns has at most max_chunks elements.
C3_AtMostMaxChunks ==
    Selected => Len(selection.result) <= selection.max_chunks

\* The same for the keyword fallback alone, and for every strategy but the
\* counting one.
C3_HoldsElsewhere ==
    (Selected /\ (selection.path = "fallback"
                    \/ selection.query_classification.primary_type # "counting"))
        => Len(selection.result) <= selection.max_chunks

Classified == selection.path # NoValue

\* The category of the highest score, the earlier of counting, analysis,
\* search on a tie.
FirstHighest(scores) ==
    CHOOSE t \in {"counting", "analysis", "search"} :
        /\ \A u \in {"counting", "analysis", "search"} : scores[u] <= scores[t]
        /\ t = "analysis" => scores["counting"] < scores["analysis"]
        /\ t = "search" => scores["counting"] < scores["search"]
                            /\ scores["analysis"] < scores["search"]

\* C13: primary_type is the category of the highest score, the earlier one on
\* a tie between non-zero scores, and 'general' when the three scores are zero.
C13_ArgmaxOrGeneral ==
    Classified =>
        LET c == selection.query_classification
        IN  IF \A t \in DOMAIN c.scores : c.scores[t] = 0
            THEN c.primary_type = "general"
            ELSE c.primary_type = FirstHighest(c.scores)

\* The same for the questions that match some pattern.
C13_HoldsWhenScored ==
    Classified =>
        LET c == selection.query_classification
        IN  (\E t \in DOMAIN c.scores : c.scores[t] > 0)
                => c.primary_type = FirstHighest(c.scores)

\* A question that matches one analysis and one search pattern.
C13_WitnessTie ==
    /\ Selected
    /\ selection.query_classification.scores["analysis"] = 1
    /\ selection.query_classification.scores["search"] = 1
    /\ selection.query_classification.primary_type = "analysis"

(***************************************************************************)
(* Claims about the chunker, checked under SpecChunker                     *)
(***************************************************************************)
Budget(type) ==
    CASE type = "structured_data" -> 25
      [] type = "tabular" -> 15
      [] type = "header" -> 50
      [] type = "text" -> 30
      [] OTHER -> -1

\* C14: every chunk holds at least one line, all its lines have the chunk's
\* content type, and line_count is within the budget of the type; two
\* consecutive chunks differ in type or the earlier one holds exactly its
\* budget of lines.
C14_ChunksWithinBudget ==
    chunked.path = "done" =>
        /\ \A i \in DOMAIN chunked.made :
              LET c == chunked.made[i]
              IN  /\ c.line_count >= 1
                  /\ c.line_count = Len(c.content)
                  /\ \A k \in DOMAIN c.content : detect_content_type(c.content[k]) = c.type
                  /\ c.line_count <= Budget(c.type)
        /\ \A i \in 1..(Len(chunked.made) - 1) :
              \/ chunked.made[i].type # chunked.made[i + 1].type
              \/ chunked.made[i].line_count = Budget(chunked.made[i].type)

\* A run of structured lines one longer than the budget was cut in two.
C14_Witness ==
    /\ chunked.path = "done"
    /\ Len(chunked.made) >= 2
    /\ chunked.made[1].type = "structured_data"
    /\ chunked.made[2].type = "structured_data"
    /\ chunked.made[1].line_count = 25

\* The lines of the document that are not blank, stripped, in order.
NonEmptyLines(lines) ==
    SelectSeq([i \in DOMAIN lines |-> Strip(lines[i])], LAMBDA l : l # "")

\* C15: blank lines appear in no chunk, are not counted and cause no chunk
\* boundary; the lines of the chunks, in chunk order, are the non-blank lines
\* of the document in their order, each once, the last buffer included.
C15_NonEmptyLinesOnce ==
    chunked.path = "done" =>
        LET made == chunked.made
            without == create_adaptive_chunks(NonEmptyLines(chunked.lines))
        IN  /\ Flatten([i \in DOMAIN made |-> made[i].content]) = NonEmptyLines(chunked.lines)
            /\ \A i \in DOMAIN made :
                  /\ made[i].line_count = Len(made[i].content)
                  /\ \A k \in DOMAIN made[i].content : made[i].content[k] # ""
            /\ Len(made) = Len(without)
            /\ \A i \in DOMAIN made : made[i].content = without[i].content

\* Blank lines stood between two lines of one type, which share a chunk.
C15_Witness ==
    /\ chunked.path = "done"
    /\ Len(chunked.lines) = 5
    /\ chunked.lines[2] = "" /\ chunked.lines[3] = "   "
    /\ Len(chunked.made) = 1
    /\ chunked.made[1].line_count = 3

\* The 1-based positions in the document of its lines that are not blank.
NonEmptyPositions(lines) ==
    SelectSeq([k \in DOMAIN lines |-> k], LAMBDA k : Strip(lines[k]) # "")

\* The number of lines held by the chunks before chunk j.
LinesBefore(made, j) == SumSeq([i \in 1..(j - 1) |-> made[i].line_count])

\* C30: start_line and end_line of every chunk are the 1-based positions in
\* the document of the first and of the last line of the chunk.
C30_LinePositions ==
    chunked.path = "done" =>
        LET made == chunked.made
            at == NonEmptyPositions(chunked.lines)
        IN  \A j \in DOMAIN made :
                /\ made[j].start_line = at[LinesBefore(made, j) + 1]
                /\ made[j].end_line = at[LinesBefore(made, j) + made[j].line_count]

\* The same for the documents that hold no blank line.
C30_HoldsWithoutBlankLines ==
    (chunked.path = "done" /\ NonEmptyLines(chunked.lines) = [k \in DOMAIN chunked.lines |->
                                                               Strip(chunked.lines[k])]) =>
        LET made == chunked.made
        IN  \A j \in DOMAIN made :
                /\ made[j].start_line = LinesBefore(made, j) + 1
                /\ made[j].end_line = LinesBefore(made, j) + made[j].line_count

(***************************************************************************)
(* Claims about ingestion, checked under SpecIngest                        *)
(***************************************************************************)
Called == last.path # NoValue

\* The chunks the chunker makes of the document of a call.
ChunksOf(call) == create_adaptive_chunks(call.file.lines)

\* The cache file named after the document's hash, as the call found it.
EntryOf(call) == call.before[get_file_hash(call.file)]

\* The cache file exists, is complete, and its stored hash and timestamp
\* equal the document's current ones.
EntryCurrent(call) ==
    /\ get_file_hash(call.file) \in DOMAIN call.before
    /\ Len(EntryOf(call)) = Len(PickleKeys)
    /\ EntryOf(call)[1].value = get_file_hash(call.file)
    /\ EntryOf(call)[2].value = call.file.mtime

\* C1: in an ingestion not served from the cache, when the embedding of any
\* one chunk fails the call returns (None, None, None), no partial lists, and
\* leaves the cache directory as it found it.
C1_FailedEmbeddingReturnsNothing ==
    (Called /\ ~last.run.ok) =>
        /\ last.ret = None3
        /\ last.after = last.before

\* The second of two chunks failed, with one chunk already embedded.
C1_Witness ==
    /\ Called /\ ~last.run.ok
    /\ last.run.calls = 2
    /\ Len(ChunksOf(last)) = 2
    /\ last.path = "embedding_failed"

\* C2: after any sequence of calls of load_and_process_document the
\* pipeline's chunks, chunk_embeddings and chunk_metadata have one length,
\* and so have the three lists of every triple returned.
C2_ListsInStep ==
    /\ Len(chunks) = Len(chunk_embeddings)
    /\ Len(chunks) = Len(chunk_metadata)
    /\ (Called /\ last.returned) =>
          /\ Len(last.ret.chunks) = Len(last.ret.chunk_embeddings)
          /\ Len(last.ret.chunks) = Len(last.ret.chunk_metadata)

\* A call that failed on its second chunk, after a call that loaded a
\* document of two chunks.
C2_Witness ==
    /\ Called /\ prev.path = "fresh"
    /\ ~last.run.ok /\ last.run.calls = 2
    /\ Len(chunks) = 2

\* C7 as written: with a current entry the stored lists are returned and no
\* embedding call is made; otherwise the entry is not used and every chunk is
\* embedded again.
C7_AsWritten ==
    Called =>
        IF EntryCurrent(last)
        THEN /\ last.ret = Triple(EntryOf(last)[3].value, EntryOf(last)[4].value,
                                  EntryOf(last)[5].value)
             /\ last.run.calls = 0
        ELSE /\ last.path # "cache"
             /\ last.run.calls = Len(ChunksOf(last))

\* C7: with a current entry the stored lists are returned unchanged and no
\* embedding call is made; otherwise the entry is not used and the chunks are
\* embedded again in order, every one of them when no call fails, and up to
\* the first failing call when one does.
C7_CacheUsedIffCurrent ==
    Called =>
        IF EntryCurrent(last)
        THEN /\ last.path = "cache"
             /\ last.ret = Triple(EntryOf(last)[3].value, EntryOf(last)[4].value,
                                  EntryOf(last)[5].value)
             /\ last.run.calls = 0
             /\ last.after = last.before
        ELSE /\ last.path # "cache"
             /\ last.run.ok => last.run.calls = Len(ChunksOf(last))
             /\ ~last.run.ok =>
                    /\ last.run.calls \in 1..Len(ChunksOf(last))
                    /\ Len(last.run.embs) = last.run.calls - 1

\* An entry with the document's hash and an older timestamp was found, and
\* both chunks were embedded again.
C7_Witness ==
    /\ Called
    /\ get_file_hash(last.file) \in DOMAIN last.before
    /\ Len(EntryOf(last)) = Len(PickleKeys)
    /\ EntryOf(last)[1].value = get_file_hash(last.file)
    /\ EntryOf(last)[2].value < last.file.mtime
    /\ last.run.ok /\ last.run.calls = 2

\* A current entry of two chunks was returned.
C7_WitnessHit ==
    /\ Called /\ EntryCurrent(last)
    /\ Len(last.ret.chunks) = 2

\* An entry that cannot be read was found.
C7_WitnessUnreadable ==
    /\ Called
    /\ get_file_hash(last.file) \in DOMAIN last.before
    /\ Len(EntryOf(last)) < Len(PickleKeys)
    /\ last.run.ok /\ last.run.calls = 2

\* A complete entry that stores another document's hash was found.
C7_WitnessOtherHash ==
    /\ Called
    /\ get_file_hash(last.file) \in DOMAIN last.before
    /\ Len(EntryOf(last)) = Len(PickleKeys)
    /\ EntryOf(last)[1].value # get_file_hash(last.file)
    /\ last.path = "fresh"

\* The entry was not current and the first of two embedding calls failed.
C7_WitnessStopped ==
    /\ Called /\ ~EntryCurrent(last)
    /\ ~last.run.ok /\ last.run.calls = 1
    /\ Len(ChunksOf(last)) = 2

\* C8: when the document's bytes and modification time are the same at two
\* successive calls and the first embedded every chunk, a second call served
\* from the cache returns the lists of the first, element by element; and it
\* is served from the cache when the first call wrote the cache file and the
\* file was left alone.
C8_SecondIngestEqualsFirst ==
    (Called /\ prev.path = "fresh" /\ last.file = prev.file) =>
        /\ last.path = "cache" =>
              /\ last.ret.chunks = prev.ret.chunks
              /\ last.ret.chunk_embeddings = prev.ret.chunk_embeddings
              /\ last.ret.chunk_metadata = prev.ret.chunk_metadata
        /\ (prev.write = "written" /\ last.before = prev.after) => last.path = "cache"

\* A document of two chunks was embedded, then served from the cache.
C8_Witness ==
    /\ Called /\ prev.path = "fresh" /\ last.file = prev.file
    /\ last.path = "cache"
    /\ Len(last.ret.chunks) = 2
    /\ last.ret.chunk_embeddings[1] # last.ret.chunk_embeddings[2]

(***************************************************************************)
(* Claims about one call of a service client, checked under SpecClient     *)
(***************************************************************************)
Evaluated == client.path = "done" /\ client.service = "quality"

\* The completion service answered 200 with a content that parses as JSON.
EvaluatorParsed ==
    /\ client.http.acquired
    /\ client.http.resp = "200"
    /\ client.body.kind \in {"json", "not_object"}

AllSections(body) == \A k \in 1..3 : body.present[k]

C16_WitnessNotJson ==
    /\ Evaluated
    /\ client.http.resp = "200"
    /\ client.body.kind = "not_json"
    /\ client.out.metrics = default_metrics

\* A JSON object without its relevance section was formatted, not defaulted.
C16_WitnessMissingSection ==
    /\ Evaluated
    /\ EvaluatorParsed
    /\ client.body.present = <<TRUE, TRUE, FALSE>>
    /\ client.out.metrics.groundedness.score = 90
    /\ client.out.metrics # default_metrics

\* The three scores of a metrics object, in the order groundedness, accuracy,
\* relevance.
ReportedScores(metrics) ==
    <<metrics.groundedness.score, metrics.accuracy.score, metrics.relevance.score>>

\* The scores the completion service returned, a missing one read as 0.
ReturnedScores(body) == [k \in 1..3 |-> IF body.present[k] THEN body.scores[k] ELSE 0]

FormattedEvaluation == Evaluated /\ EvaluatorParsed /\ client.body.kind = "json"

C28_AverageOfReportedScores ==
    FormattedEvaluation =>
        LET m == client.out.metrics
        IN  /\ m.overall_assessment.average_tenths
                  = RoundedMeanTenths(SumSeq(ReportedScores(m)))
            /\ m.overall_assessment.average_tenths \in 0..1000
            /\ m.overall_assessment.acceptable => SumSeq(ReportedScores(m)) >= 240

FailureResult(call) ==
    CASE call.service = "embedding" -> call.out.embedding = <<>>
      [] call.service = "completion" ->
            call.out.answer \in {"GPT-5 request failed: 401", "GPT-5 request failed: 500",
                                 "GPT-5 error: <exception>"}
      [] call.service = "synthesis" ->
            call.out.answer \in {"Synthesis error: 401", "Synthesis error: 500",
                                 "Synthesis error: <exception>"}
      [] call.service = "quality" -> call.out.metrics = default_metrics

\* C20: one call of the embedding or the completion client sends the request
\* at most twice; it sends it a second time exactly when the first response
\* was a 401 and the token refresh then succeeded; after any other status
\* than 200, an exception or a failed refresh the call ends with a failure
\* result, one request sent; at most one token refresh is made after the
\* initial acquisition, and none unless the first response was a 401.
C20_AtMostOneRetry ==
    (client.path = "done" /\ client.service \in {"embedding", "completion"}) =>
        LET h == client.http
            s == client.script
        IN  /\ h.sent <= 2
            /\ h.refreshed <= 1
            /\ ~h.acquired => (h.sent = 0 /\ h.refreshed = 0)
            /\ h.sent = 2 <=> (h.acquired /\ s.http1 = "401" /\ s.idp2 = "200")
            /\ h.refreshed = 1 <=> (h.acquired /\ s.http1 = "401")
            /\ (h.acquired /\ (\/ s.http1 \in {"500", "raise"}
                               \/ s.http1 = "401" /\ s.idp2 # "200"))
                  => (h.sent = 1 /\ FailureResult(client))

\* The first response was a 401, the refresh succeeded and the second request
\* was answered.
C20_Witness ==
    /\ client.path = "done"
    /\ client.service = "completion"
    /\ client.script.http1 = "401"
    /\ client.http.sent = 2
    /\ client.http.refreshed = 1
    /\ client.out.answer = LLM_ANSWER

\* The first response was a 500: one request, no refresh, a failure text.
C20_WitnessNoRetry ==
    /\ client.path = "done"
    /\ client.service = "embedding"
    /\ client.script.http1 = "500"
    /\ client.http.sent = 1
    /\ client.http.refreshed = 0
    /\ client.out.embedding = <<>>

(***************************************************************************)
(* Claims about failed token requests during query, checked under SpecQuery *)
(***************************************************************************)
\* C18: when a token acquisition or a token refresh fails while query answers
\* a question, the answer of the object query returns is the text
\* "Authentication failed", and no exception leaves query.
C18_AuthenticationFailedAnswer ==
    /\ epc # "raised"
    /\ \A k \in DOMAIN qlog :
          qlog[k].auth_failed \cap {"search", "generate"} # {}
              => qlog[k].answer = "Authentication failed"

\* What query does on a failed token request: in adaptive_search it returns
\* the answer of an empty retrieval, in the completion call (a failed refresh)
\* the text of a failed request; the text "Authentication failed" is never
\* the answer, and no exception leaves query.
C18_FailureSurfacesAsOtherText ==
    /\ epc # "raised"
    /\ \A k \in DOMAIN qlog :
          /\ "search" \in qlog[k].auth_failed
                => (qlog[k].answer = "No relevant chunks found" /\ qlog[k].llm_calls = 0)
          /\ "generate" \in qlog[k].auth_failed
                => qlog[k].answer = "GPT-5 request failed: 401"
          /\ qlog[k].answer # "Authentication failed"

\* The token request of the first query failed and query returned.
C18_WitnessAcquisition ==
    /\ epc = "returned"
    /\ Len(qlog) = 1
    /\ access_token = NoValue
    /\ qlog[1].auth_failed = {"search"}
    /\ qlog[1].answer = "No relevant chunks found"

\* The refresh after a 401 of the completion service failed.
C18_WitnessRefresh ==
    /\ epc = "returned"
    /\ Len(qlog) = 1
    /\ qlog[1].auth_failed = {"generate"}
    /\ qlog[1].answer = "GPT-5 request failed: 401"

(***************************************************************************)
(* Claims about the streamed request, checked under SpecStream             *)
(***************************************************************************)
Streaming == stream.path = "open"

IsPrefix(a, b) == Len(a) <= Len(b) /\ a = SubSeq(b, 1, Len(a))

\* C19: the generator yields the updates the worker put, in the order they
\* were put and each once, up to the 'done' update, which ends the stream and
\* is not yielded; when get times out the stream ends as well, and nothing
\* but updates the worker put has been yielded (no error update of the
\* generator's own).
C19_ForwardsInOrderUntilDone ==
    Streaming =>
        /\ IsPrefix(stream.sent, stream.put)
        /\ \A i \in DOMAIN stream.sent : stream.sent[i].type # "done"
        /\ stream.ended_by # "done" => stream.put = stream.sent \o stream.queue
        /\ stream.ended_by = "done" =>
              /\ stream.put = Append(stream.sent, Update("done", NoValue))
              /\ stream.queue = <<>>

\* Two progress updates and the result were yielded, then 'done' ended the
\* stream.
C19_Witness ==
    /\ Streaming
    /\ stream.ended_by = "done"
    /\ Len(stream.sent) = 3
    /\ stream.sent[1].step = "analysis"
    /\ stream.sent[2].step = "synthesis"
    /\ stream.sent[3].type = "result"

\* The generator timed out after one update; the worker went on and its later
\* updates stay on the queue.
C19_WitnessTimeout ==
    /\ Streaming
    /\ stream.ended_by = "timeout"
    /\ Len(stream.sent) = 1
    /\ stream.worker = "end"
    /\ Len(stream.queue) >= 2

IsTerminal(update) == update.type \in {"result", "error"}

\* C24: once the stream has ended, every 'result' or 'error' update the
\* worker has put has been yielded to the client.
C24_TerminalEventForwarded ==
    (Streaming /\ stream.generator = "ended") =>
        \A i \in DOMAIN stream.put :
            IsTerminal(stream.put[i]) => \E j \in DOMAIN stream.sent : stream.sent[j] = stream.put[i]

\* C25: the worker puts at most one terminal update, after all the progress
\* updates it puts; a 'result' only when the pipeline has run to its end; the
\* 'done' update comes right after the terminal one and is the last update
\* put; a worker that has finished has put exactly one of each.
C25_OneTerminalThenDone ==
    Streaming =>
        LET put == stream.put
        IN  /\ \A i \in DOMAIN put :
                  /\ IsTerminal(put[i]) =>
                        /\ \A j \in 1..(i - 1) : put[j].type = NoValue
                        /\ i >= Len(put) - 1
                        /\ put[i].type = "result" => stream.todo = <<>>
                  /\ put[i].type = "done" =>
                        /\ i = Len(put)
                        /\ i > 1
                        /\ IsTerminal(put[i - 1])
            /\ stream.worker = "try" => \A i \in DOMAIN put : put[i].type = NoValue
            /\ stream.worker = "finally" => put # <<>> /\ IsTerminal(put[Len(put)])
            /\ stream.worker = "end" => put # <<>> /\ put[Len(put)].type = "done"

\* The worker has finished after two progress updates, the result and 'done'.
C25_Witness ==
    /\ Streaming
    /\ stream.worker = "end"
    /\ Len(stream.put) = 4
    /\ stream.put[2].step = "synthesis"
    /\ stream.put[3].type = "result"
    /\ stream.put[4].type = "done"

\* The pipeline raised after one progress update: 'error', then 'done'.
C25_WitnessError ==
    /\ Streaming
    /\ stream.worker = "end"
    /\ stream.todo # <<>>
    /\ Len(stream.put) = 3
    /\ stream.put[2].type = "error"
    /\ stream.put[3].type = "done"

(***************************************************************************)
(* Claims about the routing of a question, checked under SpecQuery         *)
(***************************************************************************)
\* The fewest characters a question of these tokens can have: the tokens,
\* one character for each further word, one space between words, the commas.
MinLength(q) ==
    SumSeq([i \in DOMAIN q.toks |-> Len(q.toks[i])]) + q.filler
        + (IF Len(q.toks) + q.filler > 0 THEN Len(q.toks) + q.filler - 1 ELSE 0)
        + q.commas

\* len(question) = n for a question of these tokens: the further words are
\* words of any length that match no pattern.
CanHaveLength(q, n) == IF q.filler = 0 THEN MinLength(q) = n ELSE MinLength(q) <= n

ComparesAndAsksCapa(q) ==
    /\ re_search(<<"compare", "previous">>, LowerAll(q.toks))
    /\ re_search(<<"capa", "status">>, LowerAll(q.toks))

FocusIndex(subs, focus) == {i \in DOMAIN subs : subs[i].focus = focus}

\* The comparison and the CAPA sub-queries are there, and the comparison
\* sub-query is run (and finished) before the CAPA sub-query is started.
ComparisonBeforeCapa ==
    /\ FocusIndex(esubs, "comparison") # {}
    /\ FocusIndex(esubs, "capa") # {}
    /\ \A i \in FocusIndex(esubs, "comparison") : \A j \in FocusIndex(esubs, "capa") :
          /\ i < j
          /\ esubs[i].priority = 1 /\ esubs[j].priority = 3
          /\ ei >= j => Len(qlog) >= i
    /\ \A a \in DOMAIN events : \A b \in DOMAIN events :
          (events[a].step = "capa" /\ events[b].step = "comparison") => b < a

\* C21: a question of 250 characters that matches 'compare ... previous' and
\* 'capa ... status' is routed to decomposition, yields the comparison and
\* the CAPA sub-queries, and the comparison sub-query is executed before the
\* CAPA sub-query.
C21_AnyQuestionOf250Characters ==
    (Serving /\ ComparesAndAsksCapa(eq) /\ CanHaveLength(eq, 250)) =>
        /\ esubs # <<>>
        /\ ComparisonBeforeCapa

\* C21, amended: a question that matches both patterns is routed to
\* decomposition exactly when its complexity reaches 3, that is when besides
\* the two categories it has more than 30 words, more than 2 commas, a
\* conjunction or a third category, whatever its length in characters; then
\* it yields the comparison and the CAPA sub-queries and the comparison
\* sub-query is executed before the CAPA sub-query.
C21_RoutedByComplexity ==
    (Serving /\ ComparesAndAsksCapa(eq)) =>
        /\ esubs # <<>> <=>
              \/ Cardinality(MatchedCategories(eq)) >= 3
              \/ WordCount(eq) > WordLimit
              \/ eq.commas > CommaLimit
              \/ \E i \in DOMAIN eq.toks : Lower(eq.toks[i]) \in Conjunctions
        /\ esubs # <<>> => ComparisonBeforeCapa

\* A question of more than 30 words with both patterns was decomposed and
\* both sub-queries ran, the comparison first.
C21_Witness ==
    /\ epc = "returned"
    /\ ComparesAndAsksCapa(eq)
    /\ CanHaveLength(eq, 250)
    /\ WordCount(eq) > WordLimit
    /\ Len(esubs) = 2
    /\ esubs[1].focus = "comparison" /\ esubs[2].focus = "capa"
    /\ Len(qlog) = 2

\* A question of 30 words with both patterns, which can have 250 characters,
\* was answered on the direct path.
C21_WitnessDirect ==
    /\ epc = "returned"
    /\ ComparesAndAsksCapa(eq)
    /\ CanHaveLength(eq, 250)
    /\ WordCount(eq) = WordLimit
    /\ ecx = 2
    /\ esubs = <<>>
    /\ Len(qlog) = 1

(***************************************************************************)
(* Claims about the progress events of enhanced_query, under SpecQuery     *)
(***************************************************************************)
\* The active and the completed event of every step of `steps_`, in order.
RECURSIVE StepPairs(_)
StepPairs(steps_) ==
    IF steps_ = <<>> THEN <<>>
    ELSE << <<Head(steps_), "active">>, <<Head(steps_), "completed">> >> \o StepPairs(Tail(steps_))

\* The events of a question served to its end: on the direct path, and on the
\* decomposition path with the sub-queries `subs`.
ExpectedEvents(subs) ==
    IF subs = <<>> THEN StepPairs(<<"analysis">>)
    ELSE StepPairs(<<"analysis", "decomposition">>
                   \o [i \in DOMAIN subs |-> subs[i].focus]
                   \o <<"synthesis", "complete">>)

StepAndStatus(evs) == [i \in DOMAIN evs |-> <<evs[i].step, evs[i].status>>]

\* C29: the events emitted so far are the beginning of: analysis active and
\* completed, and on the decomposition path decomposition, every sub-query in
\* the order of the priorities, synthesis and complete, each active then
\* completed; they are all of it when enhanced_query has returned.  At most
\* one step is active at any point, and the event after an active one is the
\* completed event of the same step.
C29_EventsInOrder ==
    epc # "off" =>
        LET seen == StepAndStatus(events)
            all == ExpectedEvents(esubs)
        IN  /\ IsPrefix(seen, all)
            /\ epc = "returned" => seen = all
            /\ \A i \in 1..(Len(esubs) - 1) : esubs[i].priority <= esubs[i + 1].priority
            /\ \A i \in DOMAIN events :
                  /\ events[i].status = "active" <=> i % 2 = 1
                  /\ (events[i].status = "active" /\ i < Len(events)) =>
                        /\ events[i + 1].step = events[i].step
                        /\ events[i + 1].status = "completed"
            /\ \A n \in 0..Len(events) :
                  Cardinality({i \in 1..n : events[i].status = "active"})
                    - Cardinality({i \in 1..n : events[i].status = "completed"}) \in {0, 1}

\* A question decomposed into sub-queries of different priorities has been
\* answered: two events per sub-query between decomposition and synthesis.
C29_Witness ==
    /\ epc = "returned"
    /\ Len(esubs) >= 2
    /\ esubs[1].priority < esubs[Len(esubs)].priority
    /\ Len(events) = 8 + 2 * Len(esubs)
    /\ events[5].step = esubs[1].focus
    /\ events[Len(events)].step = "complete"

\* A simple question has been answered: the two analysis events and no more.
C29_WitnessDirect ==
    /\ epc = "returned"
    /\ esubs = <<>>
    /\ Len(events) = 2
    /\ Len(qlog) = 1

(***************************************************************************)
(* Claims about the analysis strategy of the two retrievers                *)
(***************************************************************************)
\* C27: when query has selected chunks for an analysis question, fewer than
\* the cap of 10, on an index that holds a structured-data chunk, one of the
\* chunks selected is a structured-data chunk.
C27_AnalysisSelectionHasStructuredChunk ==
    (/\ epc \in {"generate", "evaluate"}
     /\ cur.query_type = "analysis"
     /\ \E i \in DOMAIN chunk_metadata : chunk_metadata[i].type = "structured_data"
     /\ Len(cur.indices) < 10)
        => \E k \in DOMAIN cur.indices :
              chunk_metadata[cur.indices[k]].type = "structured_data"

\* The same for the legacy adaptive_chunk_selection, whose analysis strategy
\* adds complaint-data chunks after the threshold pass: checked under
\* SpecSelect.
C27_LegacySelectionHasComplaintChunk ==
    (/\ selection.path = "adaptive"
     /\ selection.query_classification.primary_type = "analysis"
     /\ \E i \in DOMAIN selection.index : selection.index[i].type = "complaint_data"
     /\ Len(selection.result) < selection.max_chunks)
        => \E k \in DOMAIN selection.result :
              selection.index[selection.result[k]].type = "complaint_data"

\* An analysis selection of the legacy retriever, below its cap, that holds a
\* complaint-data chunk.
C27_LegacyWitness ==
    /\ selection.path = "adaptive"
    /\ selection.query_classification.primary_type = "analysis"
    /\ selection.max_chunks = 2
    /\ Len(selection.result) = 1
    /\ selection.index[selection.result[1]].type = "complaint_data"
    /\ ~SimAtLeast(cosine_similarity(selection.query_embedding,
                                     selection.index[selection.result[1]].embedding), 30)

(***************************************************************************)
(* Claims about the request threads of the server, checked under SpecServer *)
(***************************************************************************)
\* The lists a query read and the chunks it looked up are those of `index`.
UsesOneIndex(q, index) ==
    /\ q.chunk_embeddings = index.chunk_embeddings
    /\ q.chunk_metadata = index.chunk_metadata
    /\ \A k \in DOMAIN q.relevant_chunk_indices :
          /\ q.relevant_chunk_indices[k] <= Len(index.chunks)
          /\ q.relevant_chunk_indices[k] <= Len(index.chunk_metadata)
    /\ q.relevant_chunks =
          [k \in DOMAIN q.relevant_chunk_indices |-> index.chunks[q.relevant_chunk_indices[k]]]
    /\ q.chunk_types =
          [k \in DOMAIN q.relevant_chunk_indices |->
              index.chunk_metadata[q.relevant_chunk_indices[k]].type]

\* C22: a query that runs while load_and_process_document replaces the index
\* never looks up a chunk index that is out of range, and the embeddings, the
\* metadata and the chunks it has used are those of one index, the one a load
\* installed before or the one a load is installing.
C22_QueryUsesOneIndex ==
    server.path = "serving" =>
        /\ server.query.raised = NoValue
        /\ server.query.pc = "looked_up" =>
              \E index \in server.installed : UsesOneIndex(server.query, index)

\* C23: the document the streaming worker loads is the one that was current
\* when the streamed request was accepted.
C23_WorkerAnswersAcceptedDocument ==
    (server.path = "serving" /\ server.worker.pc = "loaded") =>
        server.worker.document = server.worker.accepted

\* C26: a load_and_process_document that returned False has left chunks,
\* chunk_embeddings and chunk_metadata as they were when it was called.
C26_FailedLoadLeavesIndex ==
    (server.path = "serving" /\ server.returned.made /\ ~server.returned.success) =>
        server.returned.after = server.returned.before

====
